---------------------------- MODULE Spec2Model ----------------------------
(***************************************************************************)
(* The pgBackRest reconcile cycle of the PostgresCluster controller        *)
(* (internal/controller/postgrescluster/pgbackrest.go) as a state machine. *)
(*                                                                         *)
(* One reconcile cycle is reconcilePGBackRest: its sub-steps run in the    *)
(* order of the source, one action per sub-step, between StartCycle and    *)
(* EndCycle.  The environment (spec edits, other writers of the store,     *)
(* pods, volumes and jobs changing state) acts between cycles.             *)
(***************************************************************************)
EXTENDS Naturals, Sequences, FiniteSets, TLC

(***************************************************************************)
(* Bounds of the model.                                                    *)
(***************************************************************************)
\* store and exec calls that may fail in one behaviour
MaxFaults == 1
\* edits of the PostgresCluster spec in one behaviour
MaxSpecChanges == 1
\* resources written to the store by other actors in one behaviour
MaxForeign == 1
\* pods that can match the exec selector at once
MaxPods == 2
\* distinct option fingerprints of an external repository
MaxHash == 2
\* resources in the store when a cleanup is checked on its own
MaxOwned == 2
\* distinct creation times of the host instances a cluster starts with
MaxCreated == 2
\* cycles that are cancelled in one behaviour
MaxAborts == 1

(***************************************************************************)
(* Program constants.                                                      *)
(***************************************************************************)
\* reconcile.Result{RequeueAfter: 10 * time.Second}
RequeueDelay == 10

\* backup types (the values of the const block "backup types")
full == "full"
differential == "diff"
incremental == "incr"
BackupTypes == {full, differential, incremental}

\* condition types
ConditionReplicaCreate == "PGBackRestReplicaCreate"
ConditionReplicaRepoReady == "PGBackRestReplicaRepoReady"
ConditionRepoHostReady == "PGBackRestRepoHostReady"
ConditionTypes ==
    {ConditionReplicaCreate, ConditionReplicaRepoReady, ConditionRepoHostReady}

\* event reasons
EventRepoHostCreated == "RepoHostCreated"
EventUnableToCreateStanzas == "UnableToCreateStanzas"
EventStanzasCreated == "StanzasCreated"
EventUnableToCreatePGBackRestCronJob == "UnableToCreatePGBackRestCronJob"

(***************************************************************************)
(* Names.  A repository is named "repo<N>"; regexRepoIndex extracts N, and *)
(* the order of the names as strings is the order of their indexes.        *)
(***************************************************************************)
RepoNames == {"repo1", "repo2"}
regexRepoIndex == [n \in RepoNames |-> IF n = "repo1" THEN 1 ELSE 2]
\* the empty string, as a repository name
NoName == ""

\* label keys of package naming
LabelPGBackRest == "pgbackrest"
LabelPGBackRestConfig == "pgbackrest-config"
LabelPGBackRestDedicated == "pgbackrest-dedicated"
LabelPGBackRestRepoHost == "pgbackrest-host"
LabelPGBackRestRepoVolume == "pgbackrest-volume"
LabelPGBackRestBackup == "pgbackrest-backup"
LabelPGBackRestCronJob == "pgbackrest-cronjob"
LabelPGBackRestRepo == "pgbackrest-repo"
BackupReplicaCreate == "replica-create"

\* the name of the pgBackRest configuration file of the dedicated host
CMRepoKey == "pgbackrest_repo.conf"
\* the instance that is the primary; the configuration file of instance i
\* is "<i>.conf", written here as the instance name
Instances == {"instance1-a"}

VARIABLES
    spec,       \* postgresCluster.Spec.Archive.PGBackRest
    store,      \* the resources of the namespace, a set of records
    status,     \* postgresCluster.Status of the running cycle (in memory)
    persisted,  \* postgresCluster.Status as last written by the outer driver
    env,        \* what the cycle observes: bootstrap and the primary
    pc,         \* the position of the cycle
    local,      \* the local variables of reconcilePGBackRest
    hist,       \* what the cycle did: calls, events, results of sub-steps
    budget      \* faults and environment changes still allowed

vars == <<spec, store, status, persisted, env, pc, local, hist, budget>>


(***************************************************************************)
(* The spec of the cluster.  A repository either declares a volume or is   *)
(* external; Options is the fingerprint of an external repository's        *)
(* options (0 for a volume); BackupSchedules is the set of backup types    *)
(* whose schedule is not nil.                                              *)
(***************************************************************************)
Hashes == 1..MaxHash

VolumeRepo(n, sched) ==
    [Name |-> n, Volume |-> TRUE, Options |-> 0, BackupSchedules |-> sched]
ExternalRepo(n, h, sched) ==
    [Name |-> n, Volume |-> FALSE, Options |-> h, BackupSchedules |-> sched]

\* Spec.Archive.PGBackRest.RepoHost: nil, set without Dedicated, or Dedicated
RepoHostModes == {"none", "host", "dedicated"}

\* pgbackrest.DedicatedRepoHostEnabled; dedicatedEnabled of reconcilePGBackRest
DedicatedRepoHostEnabled(sp) == sp.RepoHost = "dedicated"
\* pgbackrest.RepoHostEnabled; repoHostConfigured of reconcilePGBackRestConfig
RepoHostEnabled(sp) == sp.RepoHost # "none"

SeqRange(s) == {s[i] : i \in 1..Len(s)}

\* pgbackrest.CalculateConfigHashes, first result: the fingerprint of each
\* external repository, by name
ConfigHashes(sp) ==
    {<<r.Name, r.Options>> : r \in {x \in SeqRange(sp.Repos) : ~x.Volume}}

\* pgbackrest.CalculateConfigHashes, second result: the fingerprint of all the
\* external fingerprints together
ConfigHash(sp) ==
    <<"hash", ConfigHashes(sp)>>
\* the value of an annotation that is not set
NoHash == <<"", {}>>

(***************************************************************************)
(* Resources of the store.                                                 *)
(***************************************************************************)
Kinds ==
    {"ConfigMap", "Job", "PersistentVolumeClaim", "Secret", "StatefulSet",
     "CronJob", "ServiceAccount", "Role", "RoleBinding"}

\* the kinds getPGBackRestResources lists, in its order
gvks ==
    <<"ConfigMap", "Job", "PersistentVolumeClaim", "Secret", "StatefulSet",
      "CronJob">>

\* owner back-reference: the cluster, another controller, or none
Owners == {"cluster", "other", "none"}

HasLabel(r, k) == \E p \in r.labels : p[1] = k
GetLabel(r, k) ==
    IF HasLabel(r, k) THEN (CHOOSE p \in r.labels : p[1] = k)[2] ELSE ""

\* metav1.IsControlledBy(object, postgresCluster)
IsControlledBy(r) == r.owner = "cluster"

\* naming.PGBackRestSelector(cluster): the cluster's pgBackRest resources
PGBackRestSelector(r) == HasLabel(r, LabelPGBackRest)

\* label sets of package naming
PGBackRestLabels == {<<LabelPGBackRest, "">>}
PGBackRestConfigLabels == PGBackRestLabels \cup {<<LabelPGBackRestConfig, "">>}
PGBackRestRepoHostLabels == PGBackRestLabels \cup {<<LabelPGBackRestRepoHost, "">>}
PGBackRestDedicatedLabels ==
    PGBackRestRepoHostLabels \cup {<<LabelPGBackRestDedicated, "">>}
PGBackRestRepoVolumeLabels(repoName) ==
    PGBackRestLabels \cup
        {<<LabelPGBackRestRepoVolume, "">>, <<LabelPGBackRestRepo, repoName>>}
PGBackRestBackupJobLabels(repoName, type) ==
    PGBackRestLabels \cup
        {<<LabelPGBackRestBackup, type>>, <<LabelPGBackRestRepo, repoName>>}
PGBackRestCronJobLabels(repoName, type) ==
    PGBackRestLabels \cup
        {<<LabelPGBackRestCronJob, type>>, <<LabelPGBackRestRepo, repoName>>}

\* a resource: metadata, the two annotations of a backup job, the commands
\* the container of a CronJob runs, and the part of its status the controller
\* reads (phase of a volume claim, readiness of a stateful set, state of a
\* job)
Resource(kind, name, labels) ==
    [kind |-> kind, name |-> name, owner |-> "cluster", labels |-> labels,
     cfgName |-> "", cfgHash |-> NoHash, args |-> <<>>, st |-> "",
     created |-> 1]

\* names of package naming: <<base, repository, backup type>>
RepoHostObjectName == <<"repo-host", "", "">>
PGBackRestRepoVolume(repoName) == <<"repo-volume", repoName, "">>
PGBackRestConfigName == <<"pgbackrest-config", "", "">>
PGBackRestSSHConfig == <<"ssh-config", "", "">>
PGBackRestSSHSecret == <<"ssh", "", "">>
PGBackRestRBAC == <<"pgbackrest", "", "">>
PGBackRestBackupJob == <<"backup", "", "">>
PGBackRestCronJob(type, repoName) == <<"pgbackrest", repoName, type>>

Find(s, kind, name) == {r \in s : r.kind = kind /\ r.name = name}

\* the status a resource has when the store creates it
InitialStatus(kind) ==
    CASE kind = "PersistentVolumeClaim" -> "Pending"
      [] kind = "StatefulSet" -> "NotReady"
      [] kind = "Job" -> "Running"
      [] OTHER -> ""

\* an apply that makes the object anew each time
AppliedAnew(s, obj) == [obj EXCEPT !.st = InitialStatus(obj.kind)]
\* r.apply: create the object if the store has none of its kind and name,
\* else patch the one it has; the status of a patched resource is kept
Applied(s, obj) ==
    IF Find(s, obj.kind, obj.name) = {}
    THEN [obj EXCEPT !.st = InitialStatus(obj.kind)]
    ELSE LET old == CHOOSE r \in Find(s, obj.kind, obj.name) : TRUE
         IN  [obj EXCEPT !.st = old.st, !.created = old.created]
Apply(s, obj) == (s \ Find(s, obj.kind, obj.name)) \cup {Applied(s, obj)}

\* the record of a store mutation: what was done to which resource, and the
\* owner the resource had before ("absent" for a create)
Mutation(op, s, kind, name) ==
    [op |-> op, kind |-> kind, name |-> name,
     owner |-> IF Find(s, kind, name) = {} THEN "absent"
               ELSE (CHOOSE r \in Find(s, kind, name) : TRUE).owner]
ApplyMutation(s, obj) ==
    Mutation(IF Find(s, obj.kind, obj.name) = {} THEN "create" ELSE "patch",
             s, obj.kind, obj.name)

(***************************************************************************)
(* The status of the cluster.                                              *)
(***************************************************************************)
RepoStatus(name) ==
    [Name |-> name, Bound |-> FALSE, VolumeName |-> "", RepoOptionsHash |-> 0,
     StanzaCreated |-> FALSE, ReplicaCreateBackupComplete |-> FALSE]

\* a condition that is not in Status.Conditions has status ""
NoConditions == [t \in ConditionTypes |-> ""]

EmptyStatus == [Repos |-> <<>>, Conditions |-> NoConditions, RepoHost |-> "nil"]

\* meta.SetStatusCondition and meta.RemoveStatusCondition
SetStatusCondition(st, type, value) == [st EXCEPT !.Conditions[type] = value]
RemoveStatusCondition(st, type) == [st EXCEPT !.Conditions[type] = ""]

\* reconcile.Result
NoResult == [Requeue |-> FALSE, RequeueAfter |-> 0]

\* updateReconcileResult: the requeue flag is kept once set, the shortest
\* non-zero delay wins
updateReconcileResult(curr, new) ==
    [Requeue |-> curr.Requeue \/ new.Requeue,
     RequeueAfter |->
        IF new.RequeueAfter # 0 /\
           (curr.RequeueAfter = 0 \/ new.RequeueAfter < curr.RequeueAfter)
        THEN new.RequeueAfter ELSE curr.RequeueAfter]


(***************************************************************************)
(* The state of a cycle.                                                   *)
(***************************************************************************)
\* the sub-steps of reconcilePGBackRest, in the order they run
Steps == <<"resources", "host", "repos", "config", "rbac", "stanza", "cron",
           "backup">>
StepSet == SeqRange(Steps)
StepIndex(s) == CHOOSE i \in 1..Len(Steps) : Steps[i] = s
LaterSteps(s) == {Steps[i] : i \in (StepIndex(s) + 1)..Len(Steps)}

\* the local variables of reconcilePGBackRest before its first statement
NoLocal ==
    [repoResources |-> {}, repoHostName |-> <<"", "", "">>, replicaCreateRepo |-> NoName,
     sa |-> FALSE, configHashMismatch |-> FALSE, result |-> NoResult,
     err |-> FALSE]

\* what is recorded of a call of reconcileStanzaCreate
NoStanzaCall ==
    [called |-> FALSE, bootstrapped |-> FALSE, hostReady |-> FALSE,
     before |-> <<>>, pods |-> 0, listed |-> FALSE, execs |-> 0,
     outcome |-> "", mismatch |-> FALSE, err |-> FALSE, events |-> <<>>]

\* what is recorded of a cycle: the sub-steps that ran and those that failed,
\* the store mutations issued (by sub-step), the events, the stanza call, the
\* call of the store that failed in getPGBackRestResources ("" if none), the
\* deletes reconcileReplicaCreateBackup issued for the job
NoHist ==
    [ran |-> {}, failed |-> {}, muts |-> {}, events |-> <<>>,
     stanza |-> NoStanzaCall, backupPods |-> 1, cleanupErr |-> "",
     jobDeletes |-> 0]

Faults == budget.faults
CanFail(n) == budget.faults + n <= MaxFaults
Spend(n) == [budget EXCEPT !.faults = @ + n]

Ran(h, step) == [h EXCEPT !.ran = @ \cup {step}]
Failed(h, step) == [h EXCEPT !.ran = @ \cup {step}, !.failed = @ \cup {step}]
Logged(h, step, ms) ==
    [h EXCEPT !.muts = @ \cup {[m EXCEPT !.op = <<step, m.op>>] : m \in ms}]

(***************************************************************************)
(* getPGBackRestResources and cleanupRepoResources.                        *)
(***************************************************************************)
\* a test that finds no schedule
backupScheduleFoundNever(repo, backupType) == FALSE
\* backupScheduleFound
backupScheduleFound(repo, backupType) ==
    /\ backupType \in BackupTypes
    /\ backupType \in repo.BackupSchedules

\* a switch that retains nothing
RetainedNone(sp, owned) == FALSE
\* a switch that deletes nothing
RetainedAll(sp, owned) == TRUE
\* the switch of cleanupRepoResources: TRUE when the owned resource is added
\* to ownedNoDelete, FALSE when it is deleted
Retained(sp, owned) ==
    CASE HasLabel(owned, LabelPGBackRestConfig) -> TRUE
      [] HasLabel(owned, LabelPGBackRestDedicated) -> DedicatedRepoHostEnabled(sp)
      [] HasLabel(owned, LabelPGBackRestRepoHost) -> RepoHostEnabled(sp)
      [] HasLabel(owned, LabelPGBackRestRepoVolume) ->
            \E repo \in SeqRange(sp.Repos) :
                repo.Volume /\ repo.Name = GetLabel(owned, LabelPGBackRestRepo)
      [] HasLabel(owned, LabelPGBackRestBackup) ->
            \E repo \in SeqRange(sp.Repos) :
                repo.Name = GetLabel(owned, LabelPGBackRestRepo)
      [] HasLabel(owned, LabelPGBackRestCronJob) ->
            \E i \in 1..Len(sp.Repos) :
                /\ sp.Repos[i].Name = GetLabel(owned, LabelPGBackRestRepo)
                /\ \A j \in 1..(i - 1) :
                       sp.Repos[j].Name # GetLabel(owned, LabelPGBackRestRepo)
                /\ backupScheduleFound(sp.Repos[i],
                                       GetLabel(owned, LabelPGBackRestCronJob))
      [] OTHER -> FALSE

\* the resources of one kind that r.Client.List returns for the selector
Listed(s, kind) == {r \in s : r.kind = kind /\ PGBackRestSelector(r)}

\* a filter that lets every listed resource through
OwnedAll(items) == items
\* the filter of getPGBackRestResources: the listed resources the cluster
\* controls
Owned(items) == {r \in items : IsControlledBy(r)}

\* the resources of one kind cleanupRepoResources deletes, and those it returns
ToDelete(sp, s, kind) == {r \in Owned(Listed(s, kind)) : ~Retained(sp, r)}
OwnedNoDelete(sp, s, kind) == {r \in Owned(Listed(s, kind)) : Retained(sp, r)}

AllToDelete(sp, s, n) == UNION {ToDelete(sp, s, gvks[i]) : i \in 1..n}

\* unstructuredToRepoResources: of the retained resources, the ones that
\* become part of RepoResources
InRepoResources(r) ==
    CASE r.kind = "ConfigMap" -> r.name = PGBackRestSSHConfig
      [] r.kind = "Job" -> GetLabel(r, LabelPGBackRestBackup) = BackupReplicaCreate
      [] r.kind = "Secret" -> r.name = PGBackRestSSHSecret
      [] OTHER -> TRUE
RepoResources(sp, s) ==
    {r \in UNION {OwnedNoDelete(sp, s, gvks[i]) : i \in 1..Len(gvks)} :
        InRepoResources(r)}

Deletions(s, rs) == {Mutation("delete", s, r.kind, r.name) : r \in rs}

\* a cycle that goes on to the repository host whatever the ownership step
\* returned
AfterResourcesContinue(err) == "host"
\* reconcilePGBackRest after getPGBackRestResources: it exits early when the
\* resources could not be listed and cleaned
AfterResources(err) == IF err THEN "return" ELSE "host"

StartCycle ==
    /\ pc = "idle"
    /\ pc' = "resources"
    /\ UNCHANGED <<spec, store, status, persisted, env, local, hist, budget>>

\* every list and every delete succeeds
GetPGBackRestResourcesOK ==
    /\ pc = "resources"
    /\ store' = store \ AllToDelete(spec, store, Len(gvks))
    /\ local' = [local EXCEPT !.repoResources = RepoResources(spec, store)]
    /\ hist' = Logged(Ran(hist, "resources"), "resources",
                      Deletions(store, AllToDelete(spec, store, Len(gvks))))
    /\ pc' = AfterResources(FALSE)
    /\ UNCHANGED <<spec, status, persisted, env, budget>>

\* the list of kind gvks[i] fails, or a delete of a resource of that kind
\* fails after the deletes of done: reconcilePGBackRest exits early with the
\* error
GetPGBackRestResourcesErr ==
    /\ pc = "resources"
    /\ CanFail(1)
    /\ \E i \in 1..Len(gvks), op \in {"list", "delete"} :
         \E done \in SUBSET ToDelete(spec, store, gvks[i]) :
            /\ op = "list" => done = {}
            /\ op = "delete" => done # ToDelete(spec, store, gvks[i])
            /\ store' = store \ (AllToDelete(spec, store, i - 1) \cup done)
            /\ hist' = [Logged(Failed(hist, "resources"), "resources",
                   Deletions(store, AllToDelete(spec, store, i - 1) \cup done))
                        EXCEPT !.cleanupErr = op]
    /\ local' = [local EXCEPT !.err = TRUE, !.result = NoResult]
    /\ budget' = Spend(1)
    /\ pc' = AfterResources(TRUE)
    /\ UNCHANGED <<spec, status, persisted, env>>


(***************************************************************************)
(* reconcileDedicatedRepoHost.                                             *)
(***************************************************************************)
\* generateRepoHostIntent
RepoHostIntent(repoHostName) ==
    Resource("StatefulSet", repoHostName, PGBackRestDedicatedLabels)

\* getRepoHostStatus
getRepoHostStatus(repoHost) == IF repoHost.st = "Ready" THEN "ready" ELSE "notready"

\* the deferred function of reconcileDedicatedRepoHost: the condition is
\* computed from Status.PGBackRest.RepoHost
RepoHostReadyCondition(st) ==
    SetStatusCondition(st, ConditionRepoHostReady,
        CASE st.RepoHost = "nil" -> "Unknown"
          [] st.RepoHost = "ready" -> "True"
          [] OTHER -> "False")

Hosts(resources) == {r \in resources : r.kind = "StatefulSet"}

\* repoResources.hosts[0].Name after the sort by creation time (of a new
\* host when there is none)
CanonicalHostNames(resources) ==
    IF Hosts(resources) = {} THEN {RepoHostObjectName}
    ELSE {h.name : h \in {x \in Hosts(resources) :
                            \A y \in Hosts(resources) : x.created <= y.created}}

\* the host is applied
ReconcileDedicatedRepoHostOK ==
    /\ pc = "host"
    /\ DedicatedRepoHostEnabled(spec)
    /\ \E repoHostName \in CanonicalHostNames(local.repoResources) :
         LET intent == RepoHostIntent(repoHostName)
             repoHost == Applied(store, intent)
             isCreate == Hosts(local.repoResources) = {}
         IN  /\ store' = Apply(store, intent)
             /\ status' = RepoHostReadyCondition(
                    [status EXCEPT !.RepoHost = getRepoHostStatus(repoHost)])
             /\ local' = [local EXCEPT !.repoHostName = repoHostName]
             /\ hist' = [Logged(Ran(hist, "host"), "host",
                                {ApplyMutation(store, intent)})
                           EXCEPT !.events =
                               IF isCreate THEN Append(@, EventRepoHostCreated)
                               ELSE @]
    /\ pc' = "repos"
    /\ UNCHANGED <<spec, persisted, env, budget>>

\* the apply of the host fails: reconcileDedicatedRepoHost returns a nil
\* host, and reconcilePGBackRest calls repoHost.GetName() on it
ReconcileDedicatedRepoHostErr ==
    /\ pc = "host"
    /\ DedicatedRepoHostEnabled(spec)
    /\ CanFail(1)
    /\ status' = RepoHostReadyCondition(status)
    /\ local' = [local EXCEPT !.result =
                    updateReconcileResult(@, [Requeue |-> TRUE, RequeueAfter |-> 0])]
    /\ hist' = Failed(hist, "host")
    /\ budget' = Spend(1)
    /\ pc' = "panic"
    /\ UNCHANGED <<spec, store, persisted, env>>

\* no dedicated host: the RepoHostReady condition is removed
RemoveRepoHostCondition ==
    /\ pc = "host"
    /\ ~DedicatedRepoHostEnabled(spec)
    /\ status' = RemoveStatusCondition(status, ConditionRepoHostReady)
    /\ pc' = "repos"
    /\ UNCHANGED <<spec, store, persisted, env, local, hist, budget>>

(***************************************************************************)
(* reconcileRepos and getRepoVolumeStatus.                                 *)
(***************************************************************************)
\* generateRepoVolumeIntent
RepoVolumeIntent(repoName) ==
    Resource("PersistentVolumeClaim", PGBackRestRepoVolume(repoName),
             PGBackRestRepoVolumeLabels(repoName))

\* the order of repository names as strings
NameLess(a, b) == regexRepoIndex[a] < regexRepoIndex[b]

\* sort.Slice by Name
RECURSIVE SortByName(_)
SortByName(entries) ==
    IF entries = {} THEN <<>>
    ELSE LET m == CHOOSE x \in entries :
                    \A y \in entries : ~NameLess(y.Name, x.Name)
         IN  <<m>> \o SortByName(entries \ {m})

\* the first status of the list with the name, as a set (empty if none)
StatusOf(repoStatus, name) ==
    {repoStatus[i] : i \in {j \in 1..Len(repoStatus) :
        /\ repoStatus[j].Name = name
        /\ \A k \in 1..(j - 1) : repoStatus[k].Name # name}}

\* a status that is kept as it is
ResetNothing(rs, replicaCreateRepoName) == rs
\* the reset both loops of getRepoVolumeStatus apply to an existing status
ResetReplicaCreate(rs, replicaCreateRepoName) ==
    IF rs.ReplicaCreateBackupComplete /\ rs.Name # replicaCreateRepoName
    THEN [rs EXCEPT !.ReplicaCreateBackupComplete = FALSE]
    ELSE rs

\* an update of the hash that keeps the flags
UpdateHashOnly(rs, hash) == [rs EXCEPT !.RepoOptionsHash = hash]
\* the update of an external repository's status when its hash changed
UpdateHash(rs, hash) ==
    IF rs.RepoOptionsHash # hash
    THEN [rs EXCEPT !.RepoOptionsHash = hash, !.StanzaCreated = FALSE,
                    !.ReplicaCreateBackupComplete = FALSE]
    ELSE rs

\* the status of a reconciled repository volume (first loop)
VolumeStatus(repoStatus, rv, replicaCreateRepoName) ==
    LET repoName == GetLabel(rv, LabelPGBackRestRepo)
    IN  IF StatusOf(repoStatus, repoName) # {}
        THEN [ResetReplicaCreate(CHOOSE rs \in StatusOf(repoStatus, repoName) : TRUE,
                                 replicaCreateRepoName)
                EXCEPT !.Bound = (rv.st = "Bound")]
        ELSE [RepoStatus(repoName) EXCEPT
                !.Bound = (rv.st = "Bound"),
                !.VolumeName = IF rv.st = "Bound" THEN "pv" ELSE ""]

\* the status of an external repository (second loop)
ExternalStatus(repoStatus, repoName, hash, replicaCreateRepoName) ==
    IF StatusOf(repoStatus, repoName) # {}
    THEN UpdateHash(
            ResetReplicaCreate(CHOOSE rs \in StatusOf(repoStatus, repoName) : TRUE,
                               replicaCreateRepoName), hash)
    ELSE [RepoStatus(repoName) EXCEPT !.RepoOptionsHash = hash]

getRepoVolumeStatus(repoStatus, repoVolumes, configHashes, replicaCreateRepoName) ==
    SortByName(
        {VolumeStatus(repoStatus, rv, replicaCreateRepoName) : rv \in repoVolumes}
        \cup
        {ExternalStatus(repoStatus, p[1], p[2], replicaCreateRepoName) :
            p \in configHashes})

\* the name of the repository at index 0 of the spec
ReplicaCreateRepoName(sp) == IF Len(sp.Repos) = 0 THEN NoName ELSE sp.Repos[1].Name

VolumeRepoNames(sp) == {r.Name : r \in {x \in SeqRange(sp.Repos) : x.Volume}}

\* the store after the apply of each object of a set of objects of distinct
\* identities
ApplyAll(s, objs) ==
    (s \ UNION {Find(s, o.kind, o.name) : o \in objs})
    \cup {Applied(s, o) : o \in objs}

\* a loop that stops at the first volume that cannot be applied
VolumesAppliedUntilFailure(sp, failing) ==
    {sp.Repos[i].Name : i \in {j \in 1..Len(sp.Repos) :
        /\ sp.Repos[j].Volume
        /\ \A k \in 1..j : sp.Repos[k].Name \notin failing}}
\* the loop of reconcileRepos: the repositories whose volume is applied when
\* the applies of failing fail
VolumesApplied(sp, failing) == VolumeRepoNames(sp) \ failing

\* what reconcileRepos returns: no name when a volume could not be applied
ReposResult(sp, failing) ==
    IF failing # {} THEN NoName ELSE ReplicaCreateRepoName(sp)

\* reconcileRepos; failing is the set of repositories whose volume apply fails
ReconcileRepos ==
    /\ pc = "repos"
    /\ \E failing \in SUBSET VolumeRepoNames(spec) :
         LET intents == {RepoVolumeIntent(n) : n \in VolumesApplied(spec, failing)}
             repoVols == {Applied(store, o) : o \in intents}
         IN  /\ CanFail(Cardinality(failing))
             /\ store' = ApplyAll(store, intents)
             /\ status' = [status EXCEPT !.Repos =
                    getRepoVolumeStatus(@, repoVols, ConfigHashes(spec),
                                        ReplicaCreateRepoName(spec))]
             /\ local' = [local EXCEPT
                    !.replicaCreateRepo = ReposResult(spec, failing),
                    !.result = IF failing # {}
                               THEN updateReconcileResult(@,
                                      [Requeue |-> TRUE, RequeueAfter |-> 0])
                               ELSE @]
             /\ hist' = Logged(IF failing # {} THEN Failed(hist, "repos")
                               ELSE Ran(hist, "repos"),
                               "repos", {ApplyMutation(store, o) : o \in intents})
             /\ budget' = Spend(Cardinality(failing))
    /\ pc' = "config"
    /\ UNCHANGED <<spec, persisted, env>>


(***************************************************************************)
(* reconcilePGBackRestConfig and reconcilePGBackRestRBAC.                  *)
(***************************************************************************)
\* the objects reconcilePGBackRestConfig applies, in its order: the
\* configuration, then the SSH configuration and secret if a repository host
\* is configured
ConfigIntents(sp) ==
    <<Resource("ConfigMap", PGBackRestConfigName, PGBackRestConfigLabels)>>
    \o (IF RepoHostEnabled(sp)
        THEN <<Resource("ConfigMap", PGBackRestSSHConfig, PGBackRestRepoHostLabels),
               Resource("Secret", PGBackRestSSHSecret, PGBackRestRepoHostLabels)>>
        ELSE <<>>)

\* the objects reconcilePGBackRestRBAC applies, in its order
RBACIntents ==
    <<Resource("ServiceAccount", PGBackRestRBAC, PGBackRestLabels),
      Resource("Role", PGBackRestRBAC, PGBackRestLabels),
      Resource("RoleBinding", PGBackRestRBAC, PGBackRestLabels)>>

\* the first n objects of a sequence of objects of distinct identities
Prefix(intents, n) == {intents[i] : i \in 1..n}

\* a sequence of applies that stops at the first failure: failAt is the
\* index of the apply that fails, 0 when none does
ApplyInOrder(step, intents, failAt) ==
    LET done == Prefix(intents, IF failAt = 0 THEN Len(intents) ELSE failAt - 1)
    IN  /\ failAt # 0 => CanFail(1)
        /\ store' = ApplyAll(store, done)
        /\ hist' = Logged(IF failAt # 0 THEN Failed(hist, step) ELSE Ran(hist, step),
                          step, {ApplyMutation(store, o) : o \in done})
        /\ budget' = IF failAt # 0 THEN Spend(1) ELSE budget

\* a result that never asks for a requeue
RequeuedNever(result, err) == result
Requeued(result, err) ==
    IF err THEN updateReconcileResult(result, [Requeue |-> TRUE, RequeueAfter |-> 0])
    ELSE result

ReconcilePGBackRestConfig ==
    /\ pc = "config"
    /\ \E failAt \in 0..Len(ConfigIntents(spec)) :
         /\ ApplyInOrder("config", ConfigIntents(spec), failAt)
         /\ local' = [local EXCEPT !.result = Requeued(@, failAt # 0)]
    /\ pc' = "rbac"
    /\ UNCHANGED <<spec, status, persisted, env>>

\* reconcilePGBackRestRBAC returns a nil service account when an apply fails
ReconcilePGBackRestRBAC ==
    /\ pc = "rbac"
    /\ \E failAt \in 0..Len(RBACIntents) :
         /\ ApplyInOrder("rbac", RBACIntents, failAt)
         /\ local' = [local EXCEPT !.result = Requeued(@, failAt # 0),
                                  !.sa = (failAt = 0)]
    /\ pc' = "stanza"
    /\ UNCHANGED <<spec, status, persisted, env>>

(***************************************************************************)
(* reconcileStanzaCreate.                                                  *)
(***************************************************************************)
\* a condition that is False when the status is missing
ReplicaRepoReadyConditionNoUnknown(sp, st) ==
    IF Len(sp.Repos) = 0 THEN st
    ELSE SetStatusCondition(st, ConditionReplicaRepoReady,
            IF \E rs \in StatusOf(st.Repos, sp.Repos[1].Name) : rs.StanzaCreated
            THEN "True" ELSE "False")
\* the deferred function of reconcileStanzaCreate
ReplicaRepoReadyCondition(sp, st) ==
    IF Len(sp.Repos) = 0 THEN st
    ELSE LET rs == StatusOf(st.Repos, sp.Repos[1].Name)
         IN  SetStatusCondition(st, ConditionReplicaRepoReady,
                CASE rs = {} -> "Unknown"
                  [] (CHOOSE x \in rs : TRUE).StanzaCreated -> "True"
                  [] OTHER -> "False")

\* a host that counts as ready only when the condition is there
DedicatedRepoReadyIfPresent(st) ==
    st.Conditions[ConditionRepoHostReady] = "True"
\* dedicatedRepoReady: true unless the RepoHostReady condition is there and
\* is not True
DedicatedRepoReady(st) ==
    st.Conditions[ConditionRepoHostReady] \in {"", "True"}

\* stanzas that count as created only when there is a status
StanzasCreatedSome(st) ==
    Len(st.Repos) > 0 /\ \A i \in 1..Len(st.Repos) : st.Repos[i].StanzaCreated
\* stanzasCreated: no repository status has StanzaCreated false
StanzasCreated(st) ==
    \A i \in 1..Len(st.Repos) : st.Repos[i].StanzaCreated

\* a test that does not look at the stanzas already created
StanzaCreateSkippedNotDone(clusterBootstrapped, dedicatedRepoReady, stanzasCreated) ==
    ~clusterBootstrapped \/ ~dedicatedRepoReady
\* a gate that does not look at the bootstrap
StanzaCreateSkippedNoBootstrap(clusterBootstrapped, dedicatedRepoReady, stanzasCreated) ==
    ~dedicatedRepoReady \/ stanzasCreated
\* the condition under which reconcileStanzaCreate returns at once
StanzaCreateSkipped(clusterBootstrapped, dedicatedRepoReady, stanzasCreated) ==
    ~clusterBootstrapped \/ ~dedicatedRepoReady \/ stanzasCreated

\* the numbers of pods a list with the exec selector can return
PodCounts == 0..MaxPods

\* pgbackrest.Executor.StanzaCreate: what it returns for each outcome of the
\* command
ExecOutcomes == {"ok", "mismatch", "error"}
StanzaCreate(outcome) ==
    [configHashMismatch |-> outcome = "mismatch", err |-> outcome = "error"]

\* statuses that are marked unless the command failed
AfterStanzaCreateNoMismatch(repos, configHashMismatch, err) ==
    IF err THEN repos
    ELSE [i \in 1..Len(repos) |-> [repos[i] EXCEPT !.StanzaCreated = TRUE]]
\* the repository statuses after the command returned
AfterStanzaCreate(repos, configHashMismatch, err) ==
    IF err \/ configHashMismatch THEN repos
    ELSE [i \in 1..Len(repos) |-> [repos[i] EXCEPT !.StanzaCreated = TRUE]]

\* events that leave a failed command out
StanzaCreateEventsOfSuccess(configHashMismatch, err) ==
    IF err \/ configHashMismatch THEN <<>> ELSE <<EventStanzasCreated>>
\* the events reconcileStanzaCreate records after the command returned
StanzaCreateEvents(configHashMismatch, err) ==
    CASE err -> <<EventUnableToCreateStanzas>>
      [] configHashMismatch -> <<>>
      [] OTHER -> <<EventStanzasCreated>>

\* reconcilePGBackRest after reconcileStanzaCreate
StanzaResult(result, configHashMismatch, err) ==
    LET a == IF err THEN updateReconcileResult(result,
                            [Requeue |-> FALSE, RequeueAfter |-> RequeueDelay])
             ELSE result
    IN  IF configHashMismatch
        THEN updateReconcileResult(a, [Requeue |-> FALSE, RequeueAfter |-> RequeueDelay])
        ELSE a

\* what reconcileStanzaCreate returns after the command returned
StanzaCreateReturn(configHashMismatch, err) ==
    [mismatch |-> configHashMismatch /\ ~err, err |-> err]

StanzaCall ==
    [NoStanzaCall EXCEPT !.called = TRUE, !.bootstrapped = env.bootstrapped,
        !.hostReady = DedicatedRepoReady(status), !.before = status.Repos]

\* the end of every path of reconcileStanzaCreate: the deferred condition,
\* and what reconcilePGBackRest does with the result
StanzaReturn(repos, call) ==
    /\ status' = ReplicaRepoReadyCondition(spec, [status EXCEPT !.Repos = repos])
    /\ local' = [local EXCEPT
            !.configHashMismatch = call.mismatch,
            !.result = StanzaResult(@, call.mismatch, call.err)]
    /\ hist' = [(IF call.err THEN Failed(hist, "stanza") ELSE Ran(hist, "stanza"))
                  EXCEPT !.stanza = call, !.events = @ \o call.events]
    /\ pc' = "cron"

\* not bootstrapped, host not ready, or nothing to create
StanzaCreateSkip ==
    /\ pc = "stanza"
    /\ StanzaCreateSkipped(env.bootstrapped, DedicatedRepoReady(status),
                           StanzasCreated(status))
    /\ StanzaReturn(status.Repos, StanzaCall)
    /\ UNCHANGED <<spec, store, persisted, env, budget>>

\* the list of pods fails
StanzaCreateListErr ==
    /\ pc = "stanza"
    /\ ~StanzaCreateSkipped(env.bootstrapped, DedicatedRepoReady(status),
                            StanzasCreated(status))
    /\ CanFail(1)
    /\ StanzaReturn(status.Repos, [StanzaCall EXCEPT !.listed = TRUE, !.err = TRUE])
    /\ budget' = Spend(1)
    /\ UNCHANGED <<spec, store, persisted, env>>

\* the list does not return exactly one pod (the cache is out of date)
StanzaCreateNoPod ==
    /\ pc = "stanza"
    /\ ~StanzaCreateSkipped(env.bootstrapped, DedicatedRepoReady(status),
                            StanzasCreated(status))
    /\ CanFail(1)
    /\ \E pods \in PodCounts \ {1} :
         StanzaReturn(status.Repos,
            [StanzaCall EXCEPT !.listed = TRUE, !.pods = pods, !.err = TRUE,
                               !.outcome = "pods"])
    /\ budget' = Spend(1)
    /\ UNCHANGED <<spec, store, persisted, env>>

\* the command is executed in the one pod found
StanzaCreateExec ==
    /\ pc = "stanza"
    /\ ~StanzaCreateSkipped(env.bootstrapped, DedicatedRepoReady(status),
                            StanzasCreated(status))
    /\ \E outcome \in ExecOutcomes :
         LET ret == StanzaCreate(outcome)
         IN  /\ outcome = "error" => CanFail(1)
             /\ budget' = IF outcome = "error" THEN Spend(1) ELSE budget
             /\ StanzaReturn(
                    AfterStanzaCreate(status.Repos, ret.configHashMismatch, ret.err),
                    [StanzaCall EXCEPT !.listed = TRUE, !.pods = 1, !.execs = 1,
                        !.outcome = outcome,
                        !.mismatch =
                            StanzaCreateReturn(ret.configHashMismatch, ret.err).mismatch,
                        !.err = StanzaCreateReturn(ret.configHashMismatch, ret.err).err,
                        !.events = StanzaCreateEvents(ret.configHashMismatch, ret.err)])
    /\ UNCHANGED <<spec, store, persisted, env>>


(***************************************************************************)
(* reconcilePGBackRestCronJob and createCronJob.                           *)
(***************************************************************************)
\* the (repository, backup type) pairs reconcilePGBackRestCronJob calls
\* createCronJob for
CronJobPairs(sp) ==
    UNION {{<<repo.Name, t>> :
                t \in repo.BackupSchedules \cap {full, differential, incremental}} :
           repo \in SeqRange(sp.Repos)}

\* Args of the container of the job template: the commands the shell runs
\* for "date; echo pgBackRest <backupType> backup scheduled..."
CronJobArgs(backupType) ==
    <<[program |-> "date", words |-> <<>>],
      [program |-> "echo",
       words |-> <<"pgBackRest", backupType, "backup", "scheduled...">>]>>

\* the CronJob createCronJob applies
CronJobIntent(repoName, backupType) ==
    [Resource("CronJob", PGBackRestCronJob(backupType, repoName),
              PGBackRestCronJobLabels(repoName, backupType))
       EXCEPT !.args = CronJobArgs(backupType)]

Repeat(e, n) == [i \in 1..n |-> e]

\* a requeue at once instead of a delayed one
CronResultAtOnce(result, requeue) ==
    IF requeue
    THEN updateReconcileResult(result, [Requeue |-> TRUE, RequeueAfter |-> 0])
    ELSE result
\* the requeue reconcilePGBackRest asks for after reconcilePGBackRestCronJob
CronResult(result, requeue) ==
    IF requeue
    THEN updateReconcileResult(result, [Requeue |-> FALSE, RequeueAfter |-> RequeueDelay])
    ELSE result

\* a loop that stops at the first trigger that cannot be applied
CronJobsAppliedUntilFailure(sp, failing) ==
    IF failing = {} THEN CronJobPairs(sp) ELSE {}
\* the pairs whose CronJob one call of reconcilePGBackRestCronJob applies:
\* an error of createCronJob sets requeue and the loops go on
CronJobsApplied(sp, failing) == CronJobPairs(sp) \ failing

\* failing is the set of pairs whose apply fails
ReconcilePGBackRestCronJob ==
    /\ pc = "cron"
    /\ \E failing \in SUBSET CronJobPairs(spec) :
         LET intents == {CronJobIntent(p[1], p[2]) : p \in CronJobsApplied(spec, failing)}
         IN  /\ CanFail(Cardinality(failing))
             /\ store' = ApplyAll(store, intents)
             /\ local' = [local EXCEPT !.result = CronResult(@, failing # {})]
             /\ hist' = [Logged(IF failing # {} THEN Failed(hist, "cron")
                                ELSE Ran(hist, "cron"),
                                "cron", {ApplyMutation(store, o) : o \in intents})
                           EXCEPT !.events = @ \o
                               Repeat(EventUnableToCreatePGBackRestCronJob,
                                      Cardinality(failing))]
             /\ budget' = Spend(Cardinality(failing))
    /\ pc' = "backup"
    /\ UNCHANGED <<spec, status, persisted, env>>

(***************************************************************************)
(* reconcileReplicaCreateBackup.                                           *)
(***************************************************************************)
\* a condition that is left unknown whatever the status is
ReplicaCreateConditionUnknown(st, replicaCreateRepoName) ==
    SetStatusCondition(st, ConditionReplicaCreate, "Unknown")
\* the deferred function of reconcileReplicaCreateBackup
ReplicaCreateCondition(st, replicaCreateRepoName) ==
    LET rs == StatusOf(st.Repos, replicaCreateRepoName)
    IN  SetStatusCondition(st, ConditionReplicaCreate,
            CASE rs = {} -> "Unknown"
              [] (CHOOSE x \in rs : TRUE).ReplicaCreateBackupComplete -> "True"
              [] OTHER -> "False")

\* a repository that is taken to be ready whatever the condition is
ReplicaRepoReadyAlways(st) == TRUE
\* replicaRepoReady: the ReplicaRepoReady condition is there and is True
ReplicaRepoReady(st) == st.Conditions[ConditionReplicaRepoReady] = "True"

\* the name of the configuration file mounted to the backup job
ConfigName(sp, primaryInstance) ==
    IF DedicatedRepoHostEnabled(sp) THEN CMRepoKey ELSE primaryInstance

jobFailed(job) == job.st = "Failed"
jobCompleted(job) == job.st = "Complete"

\* the replica-create backup jobs of RepoResources
ReplicaCreateBackupJobs(resources) == {r \in resources : r.kind = "Job"}

\* no job is deleted for being run too early
DeletesRunningNever(job, dedicatedRepoReady, replicaRepoReady) == FALSE
\* the first delete: a running job while the host or the repository is not
\* ready
DeletesRunning(job, dedicatedRepoReady, replicaRepoReady) ==
    (~jobCompleted(job) /\ ~jobFailed(job)) /\ (~dedicatedRepoReady \/ ~replicaRepoReady)

\* the second delete: a failed job, or one of another repository or of
\* another configuration
DeletesFailedOnly(job, replicaCreateRepoName, configName, configHash) ==
    jobFailed(job)
DeletesStale(job, replicaCreateRepoName, configName, configHash) ==
    \/ jobFailed(job)
    \/ replicaCreateRepoName # GetLabel(job, LabelPGBackRestRepo)
    \/ job.cfgName # configName
    \/ job.cfgHash # configHash

\* the job reconcileReplicaCreateBackup applies: the metadata of the current
\* job if there is one, else a new job for the repository at index 0
BackupJobIntent(sp, jobs, configName, configHash) ==
    IF jobs # {}
    THEN LET job == CHOOSE j \in jobs : TRUE
         IN  [Resource("Job", job.name, job.labels) EXCEPT
                !.cfgName = job.cfgName, !.cfgHash = job.cfgHash]
    ELSE [Resource("Job", PGBackRestBackupJob,
                   PGBackRestBackupJobLabels(sp.Repos[1].Name, BackupReplicaCreate))
            EXCEPT !.cfgName = configName, !.cfgHash = configHash]

\* the end of every path of reconcileReplicaCreateBackup but the panic: the
\* deferred condition, and what reconcilePGBackRest does with the error
BackupReturn(repos, err) ==
    /\ status' = ReplicaCreateCondition([status EXCEPT !.Repos = repos],
                                        local.replicaCreateRepo)
    /\ local' = [local EXCEPT !.result = Requeued(@, err)]
    /\ pc' = "return"

\* statuses that are kept as they are
MarkNothing(repos, name) == repos
\* the flags of the status of the replica-create repository
MarkComplete(repos, name) ==
    [i \in 1..Len(repos) |->
        IF repos[i].Name = name /\ \A k \in 1..(i - 1) : repos[k].Name # name
        THEN [repos[i] EXCEPT !.ReplicaCreateBackupComplete = TRUE]
        ELSE repos[i]]

\* a test that does not look at the completion of the backup
BackupSkippedIncomplete(bootstrapped, rs) == ~bootstrapped \/ rs = {}
\* the cluster is not bootstrapped, there is no status for the repository,
\* or the backup is already complete
BackupSkipped(bootstrapped, rs) ==
    IF ~bootstrapped \/ rs = {} THEN TRUE
    ELSE (CHOOSE x \in rs : TRUE).ReplicaCreateBackupComplete

ReplicaCreateBackupSkip ==
    /\ pc = "backup"
    /\ BackupSkipped(env.bootstrapped, StatusOf(status.Repos, local.replicaCreateRepo))
    /\ BackupReturn(status.Repos, FALSE)
    /\ hist' = Ran(hist, "backup")
    /\ UNCHANGED <<spec, store, persisted, env, budget>>

\* the list of pods fails
ReplicaCreateBackupListErr ==
    /\ pc = "backup"
    /\ ~BackupSkipped(env.bootstrapped, StatusOf(status.Repos, local.replicaCreateRepo))
    /\ CanFail(1)
    /\ BackupReturn(status.Repos, TRUE)
    /\ hist' = Failed(hist, "backup")
    /\ budget' = Spend(1)
    /\ UNCHANGED <<spec, store, persisted, env>>

\* the stanza step of the cycle listed the pods and found that number
SeenByStanza(h, pods) == h.stanza.outcome = "pods" /\ h.stanza.pods = pods

\* the list does not return exactly one pod (the cache is out of date); the
\* cache that was out of date for the stanza step may still be
ReplicaCreateBackupNoPod ==
    /\ pc = "backup"
    /\ ~BackupSkipped(env.bootstrapped, StatusOf(status.Repos, local.replicaCreateRepo))
    /\ \E pods \in PodCounts \ {1} :
         /\ SeenByStanza(hist, pods) \/ CanFail(1)
         /\ budget' = IF SeenByStanza(hist, pods) THEN budget ELSE Spend(1)
         /\ hist' = [Failed(hist, "backup") EXCEPT !.backupPods = pods]
    /\ BackupReturn(status.Repos, TRUE)
    /\ UNCHANGED <<spec, store, persisted, env>>

\* r.Client.Delete of a resource: it fails when the store fails (fault) and
\* when the resource is not in the store
DeleteFails(s, r, fault) == fault \/ r \notin s

\* one pod is found and a job exists: the job is deleted, or marked complete,
\* or left to the create below
ReplicaCreateBackupJob ==
    /\ pc = "backup"
    /\ ~BackupSkipped(env.bootstrapped, StatusOf(status.Repos, local.replicaCreateRepo))
    /\ ReplicaCreateBackupJobs(local.repoResources) # {}
    /\ \E job \in ReplicaCreateBackupJobs(local.repoResources), fault \in BOOLEAN :
         LET first == DeletesRunning(job, DedicatedRepoReady(status),
                                     ReplicaRepoReady(status))
             second == DeletesStale(job, local.replicaCreateRepo,
                                    ConfigName(spec, env.primary), ConfigHash(spec))
             afterFirst == IF first THEN store \ {job} ELSE store
         IN  /\ first \/ second \/ jobCompleted(job)
             /\ fault => CanFail(1) /\ (first \/ second)
             /\ budget' = IF fault THEN Spend(1) ELSE budget
             /\ IF first /\ DeleteFails(store, job, fault)
                THEN /\ store' = store
                     /\ BackupReturn(status.Repos, TRUE)
                     /\ hist' = [Failed(hist, "backup") EXCEPT !.jobDeletes = 1]
                ELSE IF second /\ DeleteFails(afterFirst, job, fault /\ ~first)
                THEN /\ store' = afterFirst
                     /\ BackupReturn(status.Repos, TRUE)
                     /\ hist' = [Logged(Failed(hist, "backup"), "backup",
                                    IF first THEN Deletions(store, {job}) ELSE {})
                                   EXCEPT !.jobDeletes = IF first THEN 2 ELSE 1]
                ELSE IF second
                THEN /\ store' = afterFirst \ {job}
                     /\ BackupReturn(status.Repos, FALSE)
                     /\ hist' = [Logged(Ran(hist, "backup"), "backup",
                                        Deletions(store, {job}))
                                   EXCEPT !.jobDeletes = IF first THEN 2 ELSE 1]
                ELSE IF jobCompleted(job)
                THEN /\ store' = store
                     /\ BackupReturn(MarkComplete(status.Repos, local.replicaCreateRepo),
                                     FALSE)
                     /\ hist' = Ran(hist, "backup")
                ELSE \* first only: the job was deleted, and the host or the
                     \* repository is not ready
                     /\ store' = afterFirst
                     /\ BackupReturn(status.Repos, FALSE)
                     /\ hist' = [Logged(Ran(hist, "backup"), "backup",
                                        Deletions(store, {job}))
                                   EXCEPT !.jobDeletes = 1]
    /\ UNCHANGED <<spec, persisted, env>>


\* a running job of the current repository and configuration, while the host
\* and the repository are ready: it is neither deleted nor complete
JobKept(job, st, replicaCreateRepoName, configName, configHash) ==
    /\ ~DeletesRunning(job, DedicatedRepoReady(st), ReplicaRepoReady(st))
    /\ ~DeletesStale(job, replicaCreateRepoName, configName, configHash)
    /\ ~jobCompleted(job)

\* the jobs reconcileReplicaCreateBackup can reach its create with: none (the
\* empty set) when the list had no job, or the job it kept
JobsAtCreate(resources, st, sp, replicaCreateRepoName, primaryInstance) ==
    IF ReplicaCreateBackupJobs(resources) = {} THEN {{}}
    ELSE {{job} : job \in {j \in ReplicaCreateBackupJobs(resources) :
            JobKept(j, st, replicaCreateRepoName, ConfigName(sp, primaryInstance),
                    ConfigHash(sp))}}

\* no job is created while the host or the repository is not ready
ReplicaCreateBackupNotReady ==
    /\ pc = "backup"
    /\ ~BackupSkipped(env.bootstrapped, StatusOf(status.Repos, local.replicaCreateRepo))
    /\ JobsAtCreate(local.repoResources, status, spec, local.replicaCreateRepo,
                    env.primary) # {}
    /\ ~DedicatedRepoReady(status) \/ ~ReplicaRepoReady(status)
    /\ BackupReturn(status.Repos, FALSE)
    /\ hist' = Ran(hist, "backup")
    /\ UNCHANGED <<spec, store, persisted, env, budget>>

\* the job is applied
ReplicaCreateBackupApply ==
    /\ pc = "backup"
    /\ ~BackupSkipped(env.bootstrapped, StatusOf(status.Repos, local.replicaCreateRepo))
    /\ DedicatedRepoReady(status) /\ ReplicaRepoReady(status)
    /\ local.sa
    /\ \E jobs \in JobsAtCreate(local.repoResources, status, spec,
                                local.replicaCreateRepo, env.primary),
          fault \in BOOLEAN :
         LET intent == BackupJobIntent(spec, jobs, ConfigName(spec, env.primary),
                                       ConfigHash(spec))
         IN  /\ fault => CanFail(1)
             /\ budget' = IF fault THEN Spend(1) ELSE budget
             /\ store' = IF fault THEN store ELSE Apply(store, intent)
             /\ BackupReturn(status.Repos, fault)
             /\ hist' = IF fault THEN Failed(hist, "backup")
                        ELSE Logged(Ran(hist, "backup"), "backup",
                                    {ApplyMutation(store, intent)})
    /\ UNCHANGED <<spec, persisted, env>>

\* the service account is nil (reconcilePGBackRestRBAC failed):
\* serviceAccount.GetName() panics
ReplicaCreateBackupPanic ==
    /\ pc = "backup"
    /\ ~BackupSkipped(env.bootstrapped, StatusOf(status.Repos, local.replicaCreateRepo))
    /\ DedicatedRepoReady(status) /\ ReplicaRepoReady(status)
    /\ ~local.sa
    /\ JobsAtCreate(local.repoResources, status, spec, local.replicaCreateRepo,
                    env.primary) # {}
    /\ status' = ReplicaCreateCondition(status, local.replicaCreateRepo)
    /\ hist' = Ran(hist, "backup")
    /\ pc' = "panic"
    /\ UNCHANGED <<spec, store, persisted, env, local, budget>>

(***************************************************************************)
(* The outer driver.                                                       *)
(***************************************************************************)
\* reconcilePGBackRest returned: the status is written when no error was
\* returned, and the next cycle starts from the written status
EndCycle ==
    /\ pc = "return"
    /\ pc' = "idle"
    /\ persisted' = IF local.err THEN persisted ELSE status
    /\ status' = persisted'
    /\ local' = NoLocal
    /\ hist' = NoHist
    /\ UNCHANGED <<spec, store, env, budget>>

\* the cycle panicked: nothing of its status is written
Recover ==
    /\ pc = "panic"
    /\ pc' = "idle"
    /\ status' = persisted
    /\ local' = NoLocal
    /\ hist' = NoHist
    /\ UNCHANGED <<spec, store, persisted, env, budget>>


(***************************************************************************)
(* The specs of the model and the environment.                             *)
(***************************************************************************)
\* the sets of backup types a repository of the model schedules
ScheduleChoices == {{}, {full}}

RepoConfigs(n) ==
    {VolumeRepo(n, sched) : sched \in ScheduleChoices} \cup
    {ExternalRepo(n, h, sched) : h \in Hashes, sched \in ScheduleChoices}

\* the lists of repositories: at most one repository of each name
RepoLists ==
    {<<>>} \cup
    UNION {{<<a>> : a \in RepoConfigs(n)} : n \in RepoNames} \cup
    UNION {{<<a, b>> : a \in RepoConfigs(n), b \in RepoConfigs(m)} :
            <<n, m>> \in {p \in RepoNames \X RepoNames : p[1] # p[2]}}

Specs == [Repos : RepoLists, RepoHost : RepoHostModes]

\* one edit of a repository: its schedule of one backup type is set or
\* unset, or its definition is changed (a volume, or other options)
RepoEdit(a, b) ==
    /\ a.Name = b.Name
    /\ \/ /\ a.Volume = b.Volume /\ a.Options = b.Options
          /\ \E t \in BackupTypes :
                /\ (t \in a.BackupSchedules) # (t \in b.BackupSchedules)
                /\ a.BackupSchedules \ {t} = b.BackupSchedules \ {t}
       \/ /\ a.BackupSchedules = b.BackupSchedules
          /\ a.Volume # b.Volume \/ a.Options # b.Options

\* one edit of the spec: the repository host, one repository, a repository
\* without schedules added at the end, the last repository removed, the only
\* repository renamed, or the two repositories swapped
OneEdit(a, b) ==
    \/ a.Repos = b.Repos /\ a.RepoHost # b.RepoHost
    \/ /\ a.RepoHost = b.RepoHost
       /\ \/ /\ Len(a.Repos) = Len(b.Repos)
             /\ \E i \in 1..Len(a.Repos) :
                  /\ RepoEdit(a.Repos[i], b.Repos[i])
                  /\ \A j \in 1..Len(a.Repos) : j # i => a.Repos[j] = b.Repos[j]
          \/ /\ Len(b.Repos) = Len(a.Repos) + 1
             /\ SubSeq(b.Repos, 1, Len(a.Repos)) = a.Repos
             /\ b.Repos[Len(b.Repos)].BackupSchedules = {}
          \/ /\ Len(a.Repos) = Len(b.Repos) + 1
             /\ SubSeq(a.Repos, 1, Len(b.Repos)) = b.Repos
          \/ /\ Len(a.Repos) = 1 /\ Len(b.Repos) = 1
             /\ a.Repos[1].Name # b.Repos[1].Name
             /\ b.Repos[1] = [a.Repos[1] EXCEPT !.Name = b.Repos[1].Name]
          \/ /\ Len(a.Repos) = 2
             /\ b.Repos = <<a.Repos[2], a.Repos[1]>>

\* the specs a cluster of the model is created with
InitSpecs ==
    {[Repos |-> <<VolumeRepo("repo1", {})>>, RepoHost |-> "dedicated"],
     [Repos |-> <<VolumeRepo("repo1", {}), ExternalRepo("repo2", 1, {})>>,
      RepoHost |-> "none"]}

\* the user edits the spec
UpdateSpec ==
    /\ pc = "idle"
    /\ budget.specChanges < MaxSpecChanges
    /\ \E sp \in Specs : OneEdit(spec, sp) /\ spec' = sp
    /\ budget' = [budget EXCEPT !.specChanges = @ + 1]
    /\ UNCHANGED <<store, status, persisted, env, pc, local, hist>>

\* the cluster is bootstrapped (patroni.ClusterBootstrapped becomes true)
Bootstrap ==
    /\ pc = "idle"
    /\ ~env.bootstrapped
    /\ env' = [env EXCEPT !.bootstrapped = TRUE]
    /\ UNCHANGED <<spec, store, status, persisted, pc, local, hist, budget>>

\* the store sets the status of a resource: a volume claim is bound, a
\* stateful set becomes ready or not ready, a running job completes or fails
StatusChanges(r) ==
    CASE r.kind = "PersistentVolumeClaim" /\ r.st = "Pending" -> {"Bound"}
      [] r.kind = "StatefulSet" -> {"Ready", "NotReady"} \ {r.st}
      [] r.kind = "Job" /\ r.st = "Running" -> {"Complete", "Failed"}
      [] OTHER -> {}
ResourceStatusChange ==
    /\ pc = "idle"
    /\ \E r \in store : \E st \in StatusChanges(r) :
         store' = (store \ {r}) \cup {[r EXCEPT !.st = st]}
    /\ UNCHANGED <<spec, status, persisted, env, pc, local, hist, budget>>

\* the resources another actor can write: a resource with the kind and name
\* of one the controller applies, not controlled by the cluster, with the
\* controller's labels or with the selector's labels only
ForeignIntents ==
    {RepoHostIntent(RepoHostObjectName), ConfigIntents([RepoHost |-> "none"])[1],
     RepoVolumeIntent("repo1"), CronJobIntent("repo1", full)}
ForeignResources ==
    {[o EXCEPT !.owner = w, !.st = InitialStatus(o.kind)] :
        o \in ForeignIntents, w \in Owners \ {"cluster"}}

ForeignWrite ==
    /\ pc = "idle"
    /\ budget.foreign < MaxForeign
    /\ \E r \in ForeignResources :
         /\ Find(store, r.kind, r.name) = {}
         /\ store' = store \cup {r}
    /\ budget' = [budget EXCEPT !.foreign = @ + 1]
    /\ UNCHANGED <<spec, status, persisted, env, pc, local, hist>>

Init ==
    /\ spec \in InitSpecs
    /\ store = {}
    /\ status = EmptyStatus
    /\ persisted = EmptyStatus
    /\ env = [bootstrapped |-> FALSE, primary |-> "instance1-a"]
    /\ pc = "idle"
    /\ local = NoLocal
    /\ hist = NoHist
    /\ budget = [faults |-> 0, specChanges |-> 0, foreign |-> 0, aborts |-> 0]

Cycle ==
    \/ StartCycle
    \/ GetPGBackRestResourcesOK
    \/ GetPGBackRestResourcesErr
    \/ ReconcileDedicatedRepoHostOK
    \/ ReconcileDedicatedRepoHostErr
    \/ RemoveRepoHostCondition
    \/ ReconcileRepos
    \/ ReconcilePGBackRestConfig
    \/ ReconcilePGBackRestRBAC
    \/ StanzaCreateSkip
    \/ StanzaCreateListErr
    \/ StanzaCreateNoPod
    \/ StanzaCreateExec
    \/ ReconcilePGBackRestCronJob
    \/ ReplicaCreateBackupSkip
    \/ ReplicaCreateBackupListErr
    \/ ReplicaCreateBackupNoPod
    \/ ReplicaCreateBackupJob
    \/ ReplicaCreateBackupNotReady
    \/ ReplicaCreateBackupApply
    \/ ReplicaCreateBackupPanic
    \/ EndCycle
    \/ Recover

Environment ==
    \/ UpdateSpec
    \/ Bootstrap
    \/ ResourceStatusChange

Next == Cycle \/ Environment

Spec == Init /\ [][Next]_vars

\* The system with a spec that is not edited, run fairly: reconciles keep
\* being triggered and their steps keep being taken, the cluster becomes
\* bootstrapped, the stanza-create command succeeds when it is executed again
\* and again, a backup job that is run again and again completes, and the
\* dedicated host, when there is one, becomes ready and stays ready.
StanzaCreateSucceeds == StanzaCreateExec /\ hist'.stanza.outcome = "ok"
JobCompletes ==
    /\ ResourceStatusChange
    /\ \E r \in store : r.kind = "Job" /\ [r EXCEPT !.st = "Complete"] \in store'
HostsReady == \A r \in Hosts(store) : r.st = "Ready"

NextFixed == Cycle \/ Bootstrap \/ ResourceStatusChange

SpecFair ==
    /\ Init /\ [][NextFixed]_vars
    /\ WF_vars(Cycle)
    /\ SF_vars(Bootstrap)
    /\ SF_vars(StanzaCreateSucceeds)
    /\ SF_vars(JobCompletes)

\* The cleanup on its own: one call of getPGBackRestResources for any spec of
\* the model and any store of at most MaxOwned resources with the cluster's
\* pgBackRest label: resources of every class, for both repository names, a
\* resource with no class label, and a resource of another owner.
CleanupResources ==
    LET objs ==
            SeqRange(ConfigIntents([RepoHost |-> "dedicated"])) \cup
            {RepoHostIntent(RepoHostObjectName),
             Resource("ConfigMap", <<"other", "", "">>, PGBackRestLabels)} \cup
            {RepoVolumeIntent(n) : n \in RepoNames} \cup
            {Resource("Job", PGBackRestBackupJob,
                      PGBackRestBackupJobLabels(n, BackupReplicaCreate)) :
                n \in RepoNames} \cup
            {CronJobIntent(n, t) : n \in RepoNames, t \in {full, differential}}
        owned == {[o EXCEPT !.st = InitialStatus(o.kind)] : o \in objs}
    IN  owned \cup {[RepoVolumeIntent("repo2") EXCEPT !.owner = "other",
                                                      !.st = "Pending"]}
CleanupStores ==
    {s \in SUBSET CleanupResources :
        /\ Cardinality(s) <= MaxOwned
        /\ \A a, b \in s : (a.kind = b.kind /\ a.name = b.name) => a = b}

InitCleanup ==
    /\ spec \in Specs
    /\ store \in CleanupStores
    /\ status = EmptyStatus
    /\ persisted = EmptyStatus
    /\ env = [bootstrapped |-> FALSE, primary |-> "instance1-a"]
    /\ pc = "idle"
    /\ local = NoLocal
    /\ hist = NoHist
    /\ budget = [faults |-> 0, specChanges |-> 0, foreign |-> 0, aborts |-> 0]

NextCleanup ==
    \/ StartCycle
    \/ GetPGBackRestResourcesOK
    \/ GetPGBackRestResourcesErr

SpecCleanup == InitCleanup /\ [][NextCleanup]_vars

\* The system started with host instances already in the store: owned
\* stateful sets with the labels of a dedicated host, of the name the
\* controller gives a new host or of another name, created at any of
\* MaxCreated times.
OtherRepoHostName == <<"repo-host-other", "", "">>
HostInstances ==
    {[RepoHostIntent(n) EXCEPT !.st = st, !.created = c] :
        n \in {RepoHostObjectName, OtherRepoHostName},
        st \in {"Ready", "NotReady"}, c \in 1..MaxCreated}
HostStores ==
    {s \in SUBSET HostInstances : \A a, b \in s : a.name = b.name => a = b}

InitHosts ==
    /\ spec \in InitSpecs
    /\ store \in HostStores
    /\ status = EmptyStatus
    /\ persisted = EmptyStatus
    /\ env = [bootstrapped |-> FALSE, primary |-> "instance1-a"]
    /\ pc = "idle"
    /\ local = NoLocal
    /\ hist = NoHist
    /\ budget = [faults |-> 0, specChanges |-> 0, foreign |-> 0, aborts |-> 0]

SpecHosts == InitHosts /\ [][NextFixed]_vars

\* The system started with schedules in the spec: any set of backup types
\* for the first repository, none or a full backup for the second.
ScheduledSpecs ==
    {[Repos |-> <<VolumeRepo("repo1", s1), ExternalRepo("repo2", 1, s2)>>,
      RepoHost |-> h] :
        s1 \in SUBSET BackupTypes, s2 \in ScheduleChoices,
        h \in {"none", "dedicated"}}

InitScheduled ==
    /\ spec \in ScheduledSpecs
    /\ store = {}
    /\ status = EmptyStatus
    /\ persisted = EmptyStatus
    /\ env = [bootstrapped |-> FALSE, primary |-> "instance1-a"]
    /\ pc = "idle"
    /\ local = NoLocal
    /\ hist = NoHist
    /\ budget = [faults |-> 0, specChanges |-> 0, foreign |-> 0, aborts |-> 0]

SpecScheduled == InitScheduled /\ [][NextFixed]_vars

\* The context of a cycle is cancelled after one of its calls: the rest of
\* the cycle is not run, and nothing of its status is written.  (A call that
\* was cancelled half-way through a sub-step is a failure of that call
\* followed by the cancellation.)
Abort ==
    /\ pc \in (StepSet \ {"resources"}) \cup {"return"}
    /\ budget.aborts < MaxAborts
    /\ budget' = [budget EXCEPT !.aborts = @ + 1]
    /\ pc' = "idle"
    /\ status' = persisted
    /\ local' = NoLocal
    /\ hist' = NoHist
    /\ UNCHANGED <<spec, store, persisted, env>>

NextAbort == NextFixed \/ Abort

\* The system with a spec that is not edited and cycles that can be
\* cancelled, run fairly as under SpecFair.
SpecAbort ==
    /\ Init /\ [][NextAbort]_vars
    /\ WF_vars(Cycle)
    /\ SF_vars(Bootstrap)
    /\ SF_vars(StanzaCreateSucceeds)
    /\ SF_vars(JobCompletes)

\* A list that races another actor.  In the ownership step a resource the
\* list returned and the switch chose to delete has been removed by another
\* actor before the cycle deletes it: r.Client.Delete returns a not-found
\* error, which cleanupRepoResources returns as any other error.
GetPGBackRestResourcesRace ==
    /\ pc = "resources"
    /\ budget.foreign < MaxForeign
    /\ \E i \in 1..Len(gvks) :
         \E gone \in ToDelete(spec, store, gvks[i]) :
            \E done \in SUBSET (ToDelete(spec, store, gvks[i]) \ {gone}) :
                /\ store' = store \ (AllToDelete(spec, store, i - 1)
                                        \cup done \cup {gone})
                /\ hist' = [Logged(Failed(hist, "resources"), "resources",
                       Deletions(store, AllToDelete(spec, store, i - 1) \cup done))
                            EXCEPT !.cleanupErr = "gone"]
    /\ local' = [local EXCEPT !.err = TRUE, !.result = NoResult]
    /\ budget' = [budget EXCEPT !.foreign = @ + 1]
    /\ pc' = AfterResources(TRUE)
    /\ UNCHANGED <<spec, status, persisted, env>>

\* Another actor removes the replica-create job after the cycle has listed
\* it and before reconcileReplicaCreateBackup gets to it.
ExternalDeleteJob ==
    /\ pc \in LaterSteps("resources")
    /\ budget.foreign < MaxForeign
    /\ \E job \in ReplicaCreateBackupJobs(local.repoResources) \cap store :
         store' = store \ {job}
    /\ budget' = [budget EXCEPT !.foreign = @ + 1]
    /\ UNCHANGED <<spec, status, persisted, env, pc, local, hist>>

\* resources a former spec has left in the store: the volume of a
\* repository that has no volume any more, a scheduled backup that is not
\* scheduled any more, a dedicated host
LeftResources ==
    {[o EXCEPT !.st = InitialStatus(o.kind)] :
        o \in {RepoVolumeIntent("repo2"), CronJobIntent("repo1", full),
               RepoHostIntent(RepoHostObjectName)}}

InitRace ==
    /\ spec \in InitSpecs
    /\ store \in SUBSET LeftResources
    /\ status = EmptyStatus
    /\ persisted = EmptyStatus
    /\ env = [bootstrapped |-> FALSE, primary |-> "instance1-a"]
    /\ pc = "idle"
    /\ local = NoLocal
    /\ hist = NoHist
    /\ budget = [faults |-> 0, specChanges |-> 0, foreign |-> 0, aborts |-> 0]

NextRace == NextFixed \/ GetPGBackRestResourcesRace \/ ExternalDeleteJob

\* The system with a spec that is not edited and lists that race another
\* actor, run fairly as under SpecFair.
SpecRace ==
    /\ InitRace /\ [][NextRace]_vars
    /\ WF_vars(Cycle)
    /\ SF_vars(Bootstrap)
    /\ SF_vars(StanzaCreateSucceeds)
    /\ SF_vars(JobCompletes)

\* The same system with other actors writing pgBackRest-labelled resources
\* into the namespace between reconciles.
NextForeign == Next \/ ForeignWrite

SpecForeign == Init /\ [][NextForeign]_vars


(***************************************************************************)
(* Properties.                                                             *)
(***************************************************************************)
\* the deletes getPGBackRestResources issued in the running cycle
CleanupDeletes == {m \in hist.muts : m.op = <<"resources", "delete">>}

\* C1: in every cycle, getPGBackRestResources/cleanupRepoResources leaves
\* every resource the cluster does not control in the store unchanged and
\* issues no delete for it, whatever its labels and whatever the spec is.
C1_CleanupKeepsNonOwned ==
    [][pc = "resources" =>
        /\ \A r \in store : ~IsControlledBy(r) => r \in store'
        /\ \A m \in {x \in hist'.muts : x.op = <<"resources", "delete">>} :
              m.owner = "cluster"]_vars

\* C1 (case): cleanup ran to its end over a store holding a resource the
\* cluster does not control whose labels the current spec does not retain,
\* and the resource is still there.
C1_NonOwnedSurvivesCleanup ==
    /\ pc = "host"
    /\ "resources" \in hist.ran
    /\ \E r \in store :
         ~IsControlledBy(r) /\ PGBackRestSelector(r) /\ ~Retained(spec, r)

\* C2: no store mutation of the reconcile cycle (create, patch or delete)
\* targets a resource the cluster does not own; an apply never patches a
\* resource of the same name that lacks the cluster's owner back-reference.
C2_NoMutationOfNonOwned ==
    \A m \in hist.muts : m.owner \in {"absent", "cluster"}

\* the sub-steps of reconcilePGBackRest after the ownership step
SubSteps == LaterSteps("resources")

\* C3: if a sub-step of reconcilePGBackRest (host, repositories,
\* configuration, RBAC, stanza creation, scheduled backups, replica-create
\* backup) fails, the cycle does not stop: every later sub-step runs, the
\* cycle returns a nil error and its result asks for a requeue.
C3_SubStepFailureDoesNotStopCycle ==
    \A f \in hist.failed \cap SubSteps :
        /\ pc # "panic"
        /\ pc = "return" =>
              /\ LaterSteps(f) \subseteq hist.ran
              /\ ~local.err
              /\ local.result.Requeue \/ local.result.RequeueAfter > 0

HashChanged ==
    {i \in 1..Len(status.Repos) :
        \E old \in StatusOf(persisted.Repos, status.Repos[i].Name) :
            old.RepoOptionsHash # status.Repos[i].RepoOptionsHash}

\* C5: at the end of every cycle, every repository status entry whose
\* repoOptionsHash differs from its value at the start of the cycle has
\* stanzaCreated=false and replicaCreateBackupComplete=false.
C5_HashChangeResetsAtEndOfCycle ==
    pc = "return" =>
        \A i \in HashChanged :
            /\ ~status.Repos[i].StanzaCreated
            /\ ~status.Repos[i].ReplicaCreateBackupComplete

\* C5 (amended): when reconcileRepos returns, every repository status entry
\* whose repoOptionsHash differs from its value at the start of the cycle has
\* stanzaCreated=false and replicaCreateBackupComplete=false (the stanza step
\* of the same cycle may set stanzaCreated again).
C5_HashChangeResetsAfterRepos ==
    pc = "config" =>
        \A i \in HashChanged :
            /\ ~status.Repos[i].StanzaCreated
            /\ ~status.Repos[i].ReplicaCreateBackupComplete

\* C5 (case): reconcileRepos returned, and an entry whose stanza was created
\* has another hash than at the start of the cycle.
C5_HashChangedAfterStanza ==
    /\ pc = "config"
    /\ \E i \in HashChanged :
         \E old \in StatusOf(persisted.Repos, status.Repos[i].Name) :
            old.StanzaCreated

\* the status entries with replicaCreateBackupComplete=true
Complete(st) == {i \in 1..Len(st.Repos) : st.Repos[i].ReplicaCreateBackupComplete}

\* at most one entry is complete, and it is the one of the replica-create
\* repository of the spec
OnlyReplicaCreateRepoComplete ==
    /\ Cardinality(Complete(status)) <= 1
    /\ \A i \in Complete(status) : status.Repos[i].Name = ReplicaCreateRepoName(spec)

Names(repos) == [i \in 1..Len(repos) |-> repos[i].Name]

\* the names of the repositories of the spec, in ascending order
SpecNames(sp) == Names(SortByName(SeqRange(sp.Repos)))

\* C7: after every call of reconcileRepos the repository status list has
\* exactly one entry for each repository name of the spec and none for
\* another name, in ascending order of name, also when the apply of a
\* repository volume failed in that cycle.
C7_OneEntryPerRepository ==
    [][pc = "repos" => Names(status'.Repos) = SpecNames(spec)]_vars

\* C8: if the cluster is not bootstrapped, reconcileStanzaCreate returns
\* (false, nil), issues no store call and no exec call, records no event and
\* leaves every stanzaCreated flag unchanged.
C8_NoStanzaBeforeBootstrap ==
    [][(pc = "stanza" /\ ~env.bootstrapped) =>
        /\ pc' = "cron"
        /\ ~local'.configHashMismatch
        /\ "stanza" \notin hist'.failed
        /\ ~hist'.stanza.listed
        /\ hist'.stanza.execs = 0
        /\ store' = store
        /\ hist'.events = hist.events
        /\ status'.Repos = status.Repos]_vars

\* C8 (case): reconcileStanzaCreate returned in a cluster that is not
\* bootstrapped, whose host is ready and which has a repository without a
\* stanza.
C8_SkippedForBootstrapOnly ==
    /\ pc = "cron"
    /\ hist.stanza.called
    /\ ~env.bootstrapped
    /\ DedicatedRepoReady(status)
    /\ ~StanzasCreated(status)

C10_StanzaCreateSucceeds ==
    [][(/\ pc = "stanza"
        /\ env.bootstrapped
        /\ DedicatedRepoReady(status)
        /\ ~StanzasCreated(status)
        /\ hist'.stanza.pods = 1
        /\ hist'.stanza.outcome = "ok") =>
        /\ StanzasCreated(status')
        /\ status'.Conditions[ConditionReplicaRepoReady] = "True"
        /\ hist'.events = Append(hist.events, EventStanzasCreated)
        /\ ~local'.configHashMismatch
        /\ "stanza" \notin hist'.failed]_vars

\* the result asks for a requeue, at once or after a delay
RequestsRequeue(result) == result.Requeue \/ result.RequeueAfter > 0

\* C11: when the list of pods of the exec selector does not return exactly
\* one pod, reconcileStanzaCreate and reconcileReplicaCreateBackup each
\* return an error without executing a command, without creating or deleting
\* a job and without changing a stanzaCreated or replicaCreateBackupComplete
\* flag, and the result of the cycle asks for a requeue.
C11_WrongPodCountIsAnError ==
    [][/\ (pc = "stanza" /\ hist'.stanza.outcome = "pods") =>
            /\ "stanza" \in hist'.failed
            /\ hist'.stanza.execs = 0
            /\ ~local'.configHashMismatch
            /\ store' = store
            /\ status'.Repos = status.Repos
            /\ hist'.events = hist.events
            /\ RequestsRequeue(local'.result)
       /\ (pc = "backup" /\ hist'.backupPods # 1) =>
            /\ "backup" \in hist'.failed
            /\ store' = store
            /\ hist'.muts = hist.muts
            /\ status'.Repos = status.Repos
            /\ local'.result.Requeue]_vars

\* C11 (case): a cycle in which both the stanza step and the backup step
\* listed the pods and found none.
C11_NoPodInBothSteps ==
    /\ pc = "return"
    /\ SeenByStanza(hist, 0)
    /\ hist.backupPods = 0
    /\ {"stanza", "backup"} \subseteq hist.failed

\* the completed replica-create jobs reconcileReplicaCreateBackup is called
\* with
CompletedJobs == {j \in ReplicaCreateBackupJobs(local.repoResources) : jobCompleted(j)}

\* the completed jobs that are of the current replica-create repository and
\* of the current configuration
CurrentCompletedJobs ==
    {j \in CompletedJobs :
        ~DeletesStale(j, local.replicaCreateRepo, ConfigName(spec, env.primary),
                      ConfigHash(spec))}

\* the applies of a job among the mutations of a cycle
JobApplies(h) ==
    {m \in h.muts : m.kind = "Job" /\ m.op \in {<<"backup", "create">>, <<"backup", "patch">>}}

\* the call marked the replica-create repository complete, applied no job
\* and set the ReplicaCreate condition to True
BackupMarkedComplete ==
    /\ \A rs \in StatusOf(status'.Repos, local.replicaCreateRepo) :
          rs.ReplicaCreateBackupComplete
    /\ JobApplies(hist') = JobApplies(hist)
    /\ status'.Conditions[ConditionReplicaCreate] = "True"

\* C12: if a replica-create job exists and has completed (cluster
\* bootstrapped, a status entry of the replica-create repository exists and
\* is not complete, one exec pod found), then after
\* reconcileReplicaCreateBackup the repository's replicaCreateBackupComplete
\* is true, no job was created or applied and ReplicaCreate is True.
C12_CompletedJobMarksComplete ==
    [][(ReplicaCreateBackupJob /\ CompletedJobs # {}) => BackupMarkedComplete]_vars

\* C12 (amended): the same, for a completed job that carries the name of the
\* current replica-create repository and the current config name and config
\* hash; the store is not changed by the call.  (A completed job of another
\* repository or configuration is deleted and nothing is marked.)
C12_CurrentCompletedJobMarksComplete ==
    [][(ReplicaCreateBackupJob /\ CurrentCompletedJobs # {}) =>
            (BackupMarkedComplete /\ store' = store)]_vars

\* C12 (case): the backup step found a completed job and marked the
\* repository, which was not complete when the cycle started.
C12_MarkedComplete ==
    /\ pc = "return"
    /\ "backup" \in hist.ran
    /\ CurrentCompletedJobs # {}
    /\ status.Conditions[ConditionReplicaCreate] = "True"
    /\ \E rs \in StatusOf(persisted.Repos, local.replicaCreateRepo) :
          ~rs.ReplicaCreateBackupComplete
    /\ \E rs \in StatusOf(status.Repos, local.replicaCreateRepo) :
          rs.ReplicaCreateBackupComplete

\* the jobs reconcileReplicaCreateBackup is called with that have failed, or
\* carry another repository name, config name or config hash than the
\* current ones
StaleJobs ==
    {j \in ReplicaCreateBackupJobs(local.repoResources) :
        \/ jobFailed(j)
        \/ GetLabel(j, LabelPGBackRestRepo) # local.replicaCreateRepo
        \/ j.cfgName # ConfigName(spec, env.primary)
        \/ j.cfgHash # ConfigHash(spec)}

\* the call deleted the stale jobs (or returned the error of the delete) and
\* applied no job
StaleJobsDeleted ==
    /\ \A j \in StaleJobs : j \notin store' \/ "backup" \in hist'.failed
    /\ JobApplies(hist') = JobApplies(hist)

\* C13: if the existing replica-create job has failed, or its repository
\* name differs from the current replica-create repository, or its
\* config-name or config-hash annotation differs from the current value,
\* reconcileReplicaCreateBackup deletes the job and returns without creating
\* or applying a job in the same call.  (The call is given the name of the
\* repository at index 0 of the spec.)
C13_StaleJobIsDeleted ==
    [][(/\ pc = "backup"
        /\ local.replicaCreateRepo = ReplicaCreateRepoName(spec)
        /\ StaleJobs # {}) => StaleJobsDeleted]_vars

\* C13 (amended): the same, in a call that gets to the job: the cluster is
\* bootstrapped, the replica-create repository has a status entry that is
\* not complete, and one exec pod is found.  The call marks nothing complete.
\* (A call that returns before, as when the backup is already complete,
\* leaves a stale job in the store.)
C13_StaleJobIsDeletedWhenReached ==
    [][(ReplicaCreateBackupJob /\ StaleJobs # {}) =>
            /\ StaleJobsDeleted
            /\ pc' = "return"
            /\ status'.Repos = status.Repos]_vars

\* C13 (case): the backup step deleted a job that had not failed but was of
\* another repository or configuration, and returned without error.
C13_StaleJobGone ==
    /\ pc = "return"
    /\ "backup" \in hist.ran \ hist.failed
    /\ \E j \in StaleJobs : ~jobFailed(j) /\ j \notin store
    /\ \E m \in hist.muts : m.op = <<"backup", "delete">>

\* the RepoHostReady condition is True or absent
HostReadyOrAbsent(st) == st.Conditions[ConditionRepoHostReady] \in {"True", ""}

\* C14: the stanza-create command is executed only when the cluster is
\* bootstrapped and the RepoHostReady condition is True or absent, and a
\* replica-create job is created or applied only in a call where the cluster
\* is bootstrapped, the ReplicaRepoReady condition is True and RepoHostReady
\* is True or absent.
C14_DependentActionsAreGated ==
    [][/\ (pc = "stanza" /\ hist'.stanza.execs = 1) =>
            (env.bootstrapped /\ HostReadyOrAbsent(status))
       /\ (pc = "backup" /\ JobApplies(hist') # JobApplies(hist)) =>
            /\ env.bootstrapped
            /\ status.Conditions[ConditionReplicaRepoReady] = "True"
            /\ HostReadyOrAbsent(status)]_vars

\* C14 (case): a cycle of a cluster with a dedicated host that is ready, in
\* which the stanza-create command was executed and the job was created.
C14_StanzaAndJobInOneCycle ==
    /\ pc = "return"
    /\ DedicatedRepoHostEnabled(spec)
    /\ status.Conditions[ConditionRepoHostReady] = "True"
    /\ hist.stanza.execs = 1
    /\ JobApplies(hist) # {}

\* every repository of the spec has a status with stanzaCreated=true, the
\* replica-create repository has replicaCreateBackupComplete=true and the
\* ReplicaCreate condition is True
Converged ==
    /\ \A i \in 1..Len(spec.Repos) :
         /\ StatusOf(status.Repos, spec.Repos[i].Name) # {}
         /\ \A rs \in StatusOf(status.Repos, spec.Repos[i].Name) : rs.StanzaCreated
    /\ \A rs \in StatusOf(status.Repos, ReplicaCreateRepoName(spec)) :
         rs.ReplicaCreateBackupComplete
    /\ status.Conditions[ConditionReplicaCreate] = "True"

\* C15: with a fixed spec and under fairness (with a host that becomes ready
\* and stays ready), the system eventually reaches a state where every
\* repository has stanzaCreated=true, the replica-create repository has
\* replicaCreateBackupComplete=true and the ReplicaCreate condition is True,
\* and it stays there.
C15_Convergence == <>[]HostsReady => <>[]Converged

\* C15 (case): a cluster with a dedicated host has converged, and a call has
\* failed on the way.
C15_ConvergedAfterFailure ==
    /\ pc = "idle"
    /\ Converged
    /\ DedicatedRepoHostEnabled(spec)
    /\ Faults > 0

\* the rule of the class of a resource, the class being given by the first
\* of the class labels the resource carries
ClassRule(sp, r) ==
    LET repos == {repo \in SeqRange(sp.Repos) :
                    repo.Name = GetLabel(r, LabelPGBackRestRepo)}
    IN  IF HasLabel(r, LabelPGBackRestConfig) THEN TRUE
        ELSE IF HasLabel(r, LabelPGBackRestDedicated) THEN sp.RepoHost = "dedicated"
        ELSE IF HasLabel(r, LabelPGBackRestRepoHost)
             THEN sp.RepoHost \in {"host", "dedicated"}
        ELSE IF HasLabel(r, LabelPGBackRestRepoVolume)
             THEN \E repo \in repos : repo.Volume
        ELSE IF HasLabel(r, LabelPGBackRestBackup) THEN repos # {}
        ELSE IF HasLabel(r, LabelPGBackRestCronJob)
             THEN \E repo \in repos :
                    GetLabel(r, LabelPGBackRestCronJob) \in repo.BackupSchedules
        ELSE FALSE

\* the owned resources with the cluster's backup labels that a cleanup lists
OwnedBackupResources ==
    {r \in store : /\ r.owner = "cluster"
                   /\ HasLabel(r, LabelPGBackRest)
                   /\ r.kind \in SeqRange(gvks)}

\* C16: a cleanup keeps an owned resource with the cluster's backup labels
\* in the store and returns it if and only if the rule of its class holds
\* against the spec; every other owned resource, one with no class label
\* included, is deleted.
C16_CleanupFollowsClassRules ==
    [][GetPGBackRestResourcesOK =>
        \A r \in OwnedBackupResources :
            IF ClassRule(spec, r)
            THEN /\ r \in store'
                 /\ InRepoResources(r) => r \in local'.repoResources
                 /\ \A m \in hist'.muts : ~(m.kind = r.kind /\ m.name = r.name)
            ELSE /\ r \notin store'
                 /\ r \notin local'.repoResources
                 /\ \E m \in hist'.muts :
                        /\ m.op = <<"resources", "delete">>
                        /\ m.kind = r.kind /\ m.name = r.name]_vars

\* C16 (case): a cleanup has deleted a resource with no class label and has
\* returned a resource it retained.
C16_DeletedAndRetained ==
    /\ pc = "host"
    /\ \E m \in CleanupDeletes : m.name = <<"other", "", "">> /\ m.owner = "cluster"
    /\ \E r \in local.repoResources : r \in store

\* the sub-steps whose failure asks for a requeue after the fixed delay
DelayedSteps == {"stanza", "cron"}

\* C17: when the stanza creation of a cycle returns a hash mismatch, or the
\* apply of a scheduled backup fails, the result reconcilePGBackRest returns
\* has RequeueAfter equal to the fixed delay of 10 seconds and, if no other
\* sub-step failed, does not ask for an immediate requeue.
C17_DelayedRequeue ==
    (pc = "return" /\ (hist.stanza.mismatch \/ "cron" \in hist.failed)) =>
        /\ local.result.RequeueAfter = RequeueDelay
        /\ RequeueDelay = 10
        /\ hist.failed \subseteq DelayedSteps => ~local.result.Requeue

\* C17 (case): a cycle with a hash mismatch and a failed apply of a
\* scheduled backup, and no other failure, has returned.
C17_MismatchAndCronFailure ==
    /\ pc = "return"
    /\ hist.stanza.mismatch
    /\ "cron" \in hist.failed
    /\ hist.failed \subseteq DelayedSteps

\* the applies of a step: the creates and patches it adds to the record
AppliedNow == {m \in hist'.muts \ hist.muts : m.op[2] \in {"create", "patch"}}

\* the resource is what an apply of the same intent made: the two differ at
\* most in what the store itself sets
SameIntent(r, q) ==
    /\ r.kind = q.kind /\ r.name = q.name
    /\ r.owner = q.owner /\ r.labels = q.labels
    /\ r.cfgName = q.cfgName /\ r.cfgHash = q.cfgHash
    /\ r.args = q.args

HostNotReady ==
    DedicatedRepoHostEnabled(spec) /\ status.Conditions[ConditionRepoHostReady] # "True"

\* every repository status has stanzaCreated=true (also when there is none)
AllStanzasCreated == \A rs \in SeqRange(status.Repos) : rs.StanzaCreated

\* C20: reconcileStanzaCreate returns (false, nil) without a list of pods,
\* an exec call, an event or a change of stanzaCreated whenever a dedicated
\* host is configured and the RepoHostReady condition is not True, or every
\* repository status has stanzaCreated=true (also when there is no status).
C20_StanzaCreateIsANoOp ==
    [][(pc = "stanza" /\ (HostNotReady \/ AllStanzasCreated)) =>
        /\ hist'.stanza.called
        /\ ~hist'.stanza.listed
        /\ hist'.stanza.execs = 0
        /\ ~hist'.stanza.mismatch /\ ~hist'.stanza.err
        /\ "stanza" \notin hist'.failed
        /\ hist'.events = hist.events
        /\ status'.Repos = status.Repos
        /\ store' = store
        /\ local'.result = local.result]_vars

\* C20 (case): the call returned at once in a bootstrapped cluster whose
\* stanzas are not all created, because the dedicated host is not ready.
C20_SkippedForHostOnly ==
    /\ pc = "cron"
    /\ DedicatedRepoHostEnabled(spec)
    /\ status.Conditions[ConditionRepoHostReady] \in {"False", "Unknown"}
    /\ hist.stanza.called /\ ~hist.stanza.listed
    /\ hist.stanza.bootstrapped
    /\ \E rs \in SeqRange(status.Repos) : ~rs.StanzaCreated

\* C21: if the stanza-create command fails for a reason other than a hash
\* mismatch, reconcileStanzaCreate records exactly one warning event, returns
\* (false, error) and leaves every stanzaCreated flag unchanged.
C21_ExecErrorIsReported ==
    [][(pc = "stanza" /\ hist'.stanza.outcome = "error") =>
        /\ hist'.stanza.execs = 1
        /\ hist'.events = Append(hist.events, EventUnableToCreateStanzas)
        /\ ~hist'.stanza.mismatch /\ hist'.stanza.err
        /\ ~local'.configHashMismatch
        /\ "stanza" \in hist'.failed
        /\ status'.Repos = status.Repos]_vars

\* C21 (case): the command has failed in a cluster in which one stanza was
\* created and another was not.
C21_ExecFailed ==
    /\ pc = "cron"
    /\ hist.stanza.outcome = "error"
    /\ \E a, b \in SeqRange(status.Repos) : a.StanzaCreated /\ ~b.StanzaCreated

\* the value of a readiness condition recomputed from a flag of the status
\* of the replica-create repository
Recomputed(flags) ==
    IF flags = {} THEN "Unknown" ELSE IF flags = {TRUE} THEN "True" ELSE "False"

C23_ReplicaCreateIsRecomputed ==
    (pc = "return" /\ "backup" \in hist.ran) =>
        status.Conditions[ConditionReplicaCreate] =
            Recomputed({rs.ReplicaCreateBackupComplete :
                rs \in StatusOf(status.Repos, ReplicaCreateRepoName(spec))})

\* the status reconcileReplicaCreateBackup finds for the name it is given
GivenRepoStatus == StatusOf(status.Repos, local.replicaCreateRepo)

\* C24: reconcileReplicaCreateBackup issues no store call (no list of pods,
\* no delete, no create of a job) and changes no status flag when the cluster
\* is not bootstrapped, when there is no status for the name of the
\* replica-create repository, or when the backup of that repository is
\* already complete; a job that exists is left as it is.
C24_BackupIsANoOp ==
    [][(/\ pc = "backup"
        /\ \/ ~env.bootstrapped
           \/ GivenRepoStatus = {}
           \/ \E rs \in GivenRepoStatus : rs.ReplicaCreateBackupComplete) =>
        /\ pc' = "return"
        /\ store' = store
        /\ hist'.muts = hist.muts
        /\ "backup" \in hist'.ran \ hist'.failed
        /\ budget' = budget
        /\ status'.Repos = status.Repos
        /\ local'.result = local.result]_vars

\* C24 (case): the call has returned at once because the backup is complete,
\* and has left a job with a config hash that is no longer current.
C24_DriftedJobLeft ==
    /\ pc = "return"
    /\ "backup" \in hist.ran
    /\ env.bootstrapped
    /\ \E rs \in GivenRepoStatus : rs.ReplicaCreateBackupComplete
    /\ \E job \in store : job.kind = "Job" /\ job.cfgHash # ConfigHash(spec)

\* the replica-create jobs that are running while the host or the repository
\* is not ready
RunningJobs ==
    {job \in ReplicaCreateBackupJobs(local.repoResources) :
        /\ job.st = "Running"
        /\ \/ status.Conditions[ConditionRepoHostReady] \notin {"", "True"}
           \/ status.Conditions[ConditionReplicaRepoReady] # "True"}

\* C25: if the job that exists is still running and the host or the
\* replica-create repository is not ready, reconcileReplicaCreateBackup
\* deletes the job and does not create or apply a job in that call.
C25_RunningJobIsDeleted ==
    [][(pc = "backup" /\ RunningJobs # {}) =>
        /\ \A job \in RunningJobs : job \notin store'
        /\ JobApplies(hist') = {}]_vars

\* C25 (amended): in a call that gets to the job (the cluster is
\* bootstrapped, the repository has a status that is not complete, one pod
\* is found), a job that is still running while the host or the repository
\* is not ready is deleted, or the error of a store call is returned, and
\* no job is created or applied in the call; a job is created or applied
\* only in a call in which both are ready.
C25_RunningJobIsDeletedWhenReached ==
    [][/\ (/\ pc = "backup"
           /\ RunningJobs # {}
           /\ env.bootstrapped
           /\ \E rs \in GivenRepoStatus : ~rs.ReplicaCreateBackupComplete) =>
            /\ pc' = "return"
            /\ JobApplies(hist') = {}
            /\ \/ "backup" \in hist'.failed
               \/ \A job \in RunningJobs :
                    /\ job \notin store'
                    /\ Mutation("delete", store, job.kind, job.name) \in
                         {[m EXCEPT !.op = "delete"] : m \in hist'.muts}
       /\ (pc = "backup" /\ JobApplies(hist') # {}) =>
            /\ status.Conditions[ConditionRepoHostReady] \in {"", "True"}
            /\ status.Conditions[ConditionReplicaRepoReady] = "True"]_vars

\* C25 (case): the running job was deleted because the dedicated host is no
\* longer ready.
C25_RunningJobGone ==
    /\ pc = "return"
    /\ "backup" \in hist.ran \ hist.failed
    /\ status.Conditions[ConditionRepoHostReady] = "False"
    /\ \E m \in hist.muts : m.op = <<"backup", "delete">>
    /\ ReplicaCreateBackupJobs(store) = {}
    /\ \E job \in ReplicaCreateBackupJobs(local.repoResources) : job.st = "Running"

\* the repositories whose volume a step has applied
VolumesAppliedNow ==
    {n \in VolumeRepoNames(spec) :
        /\ \E m \in hist'.muts \ hist.muts :
             /\ m.op \in {<<"repos", "create">>, <<"repos", "patch">>}
             /\ m.kind = "PersistentVolumeClaim" /\ m.name = PGBackRestRepoVolume(n)
        /\ Find(store', "PersistentVolumeClaim", PGBackRestRepoVolume(n)) # {}}

\* C26: in reconcileRepos a failure of the apply of the volume of one
\* repository does not stop the loop: the volume of every other repository
\* of the spec that declares one is applied in the same call, and the error
\* is returned after all of them were attempted.
C26_VolumeFailureDoesNotStopLoop ==
    [][pc = "repos" =>
        /\ Cardinality(VolumeRepoNames(spec) \ VolumesAppliedNow) =
               budget'.faults - budget.faults
        /\ ("repos" \in hist'.failed) <=> (VolumesAppliedNow # VolumeRepoNames(spec))
        /\ "repos" \in hist'.failed =>
               local'.replicaCreateRepo = NoName /\ local'.result.Requeue
        /\ pc' = "config"]_vars

\* C26 (case): the volume of the first repository could not be applied and
\* that of the second was applied in the same call.
C26_SecondVolumeApplied ==
    /\ pc = "config"
    /\ "repos" \in hist.failed
    /\ Len(spec.Repos) = 2
    /\ Find(store, "PersistentVolumeClaim",
            PGBackRestRepoVolume(spec.Repos[1].Name)) = {}
    /\ \E m \in hist.muts :
         /\ m.op = <<"repos", "create">>
         /\ m.name = PGBackRestRepoVolume(spec.Repos[2].Name)

\* the host instances the cluster owns
OwnedHosts(s) == {r \in s : r.kind = "StatefulSet" /\ r.owner = "cluster"}

\* the host step of a cycle with dedicated hosting reconciles an oldest of
\* the host instances it was given
OldestHostIsReconciled ==
    (/\ pc = "host" /\ pc' = "repos"
     /\ DedicatedRepoHostEnabled(spec)
     /\ Hosts(local.repoResources) # {}) =>
        \E h \in Hosts(local.repoResources) :
            /\ h.name = local'.repoHostName
            /\ \A o \in Hosts(local.repoResources) : h.created <= o.created

\* the sweep of a cycle that follows a cycle in which the host was
\* reconciled leaves at most one owned host instance
SweepLeavesOneHost ==
    (/\ pc = "resources" /\ pc' = "host"
     /\ DedicatedRepoHostEnabled(spec)
     /\ persisted.RepoHost # "nil") =>
        Cardinality(OwnedHosts(store')) <= 1

\* C27: when dedicated hosting is enabled and several owned host instances
\* exist, the oldest by creation time is the one reconciled, and the sweep
\* of a cycle that follows a cycle in which the host was reconciled removes
\* the duplicates, so that at most one host instance survives it.
C27_DuplicateHostsAreRemoved ==
    [][OldestHostIsReconciled /\ SweepLeavesOneHost]_vars

\* the first half of C27 on its own
C27_OldestHostOnly == [][OldestHostIsReconciled]_vars

\* C28: after every call of reconcileDedicatedRepoHost, whether the apply
\* of the host succeeded or failed, the RepoHostReady condition is True
\* only if the host applied in this call is ready; it is never True on the
\* basis of a host status recorded in an earlier cycle.
C28_RepoHostReadyIsOfThisCall ==
    [][(/\ pc = "host" /\ pc' # "host"
        /\ DedicatedRepoHostEnabled(spec)
        /\ status'.Conditions[ConditionRepoHostReady] = "True") =>
            /\ "host" \notin hist'.failed
            /\ \E h \in Hosts(store') :
                /\ h.name = local'.repoHostName
                /\ h.st = "Ready"]_vars

\* the same on the calls in which the apply of the host succeeded
C28_RepoHostReadyOfAppliedHost ==
    [][(/\ pc = "host" /\ pc' = "repos"
        /\ DedicatedRepoHostEnabled(spec)) =>
            (status'.Conditions[ConditionRepoHostReady] = "True" <=>
                \E h \in Hosts(store') :
                    /\ h.name = local'.repoHostName
                    /\ h.st = "Ready")]_vars

\* the (repository, backup type) pairs of the spec with a schedule
ScheduledPairs ==
    {p \in RepoNames \X BackupTypes :
        \E i \in 1..Len(spec.Repos) :
            spec.Repos[i].Name = p[1] /\ p[2] \in spec.Repos[i].BackupSchedules}

\* the store mutations and the events of one step
NewMutations == hist'.muts \ hist.muts
NewEvents == SubSeq(hist'.events, Len(hist.events) + 1, Len(hist'.events))

\* the pairs whose trigger a step has applied
CronJobsAppliedNow ==
    {p \in RepoNames \X BackupTypes :
        /\ \E m \in NewMutations :
             /\ m.op \in {<<"cron", "create">>, <<"cron", "patch">>}
             /\ m.kind = "CronJob" /\ m.name = PGBackRestCronJob(p[2], p[1])
        /\ Cardinality(Find(store', "CronJob", PGBackRestCronJob(p[2], p[1]))) = 1}

\* C29: reconcilePGBackRestCronJob applies one scheduled trigger for each
\* (repository, backup type) pair of the spec that has a schedule and none
\* for the other pairs; each failed apply records one warning event and
\* does not stop the remaining pairs from being applied, and the function
\* returns true (a requeue is asked for) iff at least one apply failed.
C29_OneTriggerPerScheduledPair ==
    [][pc = "cron" =>
        /\ CronJobsAppliedNow \subseteq ScheduledPairs
        /\ \A m \in NewMutations :
             \E p \in ScheduledPairs :
                m.kind = "CronJob" /\ m.name = PGBackRestCronJob(p[2], p[1])
        /\ Len(NewEvents) = Cardinality(ScheduledPairs \ CronJobsAppliedNow)
        /\ \A i \in 1..Len(NewEvents) :
             NewEvents[i] = EventUnableToCreatePGBackRestCronJob
        /\ ("cron" \in hist'.failed) <=> (CronJobsAppliedNow # ScheduledPairs)
        /\ IF "cron" \in hist'.failed
           THEN local'.result.Requeue \/ local'.result.RequeueAfter > 0
           ELSE local'.result = local.result
        /\ pc' = "backup"]_vars

\* C29 (case): of two scheduled pairs the trigger of one could not be
\* applied, and that of the other was applied in the same call.
C29_OneOfTwoTriggersApplied ==
    /\ pc = "backup"
    /\ "cron" \in hist.failed
    /\ \E p, q \in ScheduledPairs :
         /\ p # q
         /\ Find(store, "CronJob", PGBackRestCronJob(p[2], p[1])) = {}
         /\ \E m \in hist.muts :
              /\ m.op = <<"cron", "create">>
              /\ m.name = PGBackRestCronJob(q[2], q[1])

\* the commands run the backup tool for a backup of the type against the
\* repository
InvokesBackup(args, backupType, repoName) ==
    \E i \in 1..Len(args) :
        /\ args[i].program = "pgbackrest"
        /\ \A w \in {"backup", backupType, repoName} :
             \E j \in 1..Len(args[i].words) : args[i].words[j] = w

\* C30: the command of the job template of every scheduled trigger created
\* by createCronJob invokes the backup tool to run a backup of the
\* trigger's backup type against its repository.
C30_TriggerRunsBackup ==
    \A r \in store :
        (r.kind = "CronJob" /\ r.owner = "cluster") =>
            InvokesBackup(r.args, r.name[3], r.name[2])

\* the resources a step removes from the store
Removed == {r \in store : Find(store', r.kind, r.name) = {}}

\* no step deletes a resource that the class rules of the spec retain,
\* but for the replica-create job that is not complete, which the backup
\* step deletes to create it again
NoRequiredResourceDeleted ==
    \A r \in Removed :
        \/ ~ClassRule(spec, r)
        \/ r.kind = "Job" /\ pc = "backup" /\ ~jobCompleted(r)

\* C31: a cycle that is cancelled after any of its calls, its status being
\* lost, is safe: the cycles that follow reach the converged state that is
\* reached without a cancellation (under the fairness of C15), and no step
\* deletes a resource the spec requires.
C31_AbortIsSafe ==
    /\ <>[]HostsReady => <>[]Converged
    /\ [][NoRequiredResourceDeleted]_vars

\* C31 (case): a cycle was cancelled after the replica-create job was
\* created, and the cluster has converged all the same.
C31_ConvergedAfterAbort ==
    /\ pc = "idle"
    /\ budget.aborts = 1
    /\ Converged
    /\ \E r \in store : r.kind = "Job" /\ jobCompleted(r)

\* a job of the list of the cycle that is not in the store any more
JobsGone == ReplicaCreateBackupJobs(local.repoResources) \ store

C33_CompleteImpliesStanzaCreated ==
    pc = "return" =>
        /\ \A rs \in StatusOf(status.Repos, ReplicaCreateRepoName(spec)) :
             rs.ReplicaCreateBackupComplete => rs.StanzaCreated
        /\ status.Conditions[ConditionReplicaCreate] = "True" =>
             status.Conditions[ConditionReplicaRepoReady] = "True"

\* the status entry of every repository that has one is kept and neither of
\* its flags goes from true to false
FlagsKept(before, after) ==
    \A n \in RepoNames :
        \A rs \in StatusOf(before.Repos, n) :
            /\ StatusOf(after.Repos, n) # {}
            /\ \A ns \in StatusOf(after.Repos, n) :
                 /\ rs.StanzaCreated => ns.StanzaCreated
                 /\ rs.ReplicaCreateBackupComplete => ns.ReplicaCreateBackupComplete

\* C34: with a spec that is not edited, the status a cycle writes keeps the
\* entry of every repository of the status written before, and neither
\* stanzaCreated nor replicaCreateBackupComplete goes from true back to
\* false, whatever call fails in the cycle.
C34_FlagsAreMonotone == [][FlagsKept(persisted, persisted')]_vars

\* C35: one call of reconcileReplicaCreateBackup issues at most one delete
\* for the existing replica-create job, whatever the state of the job, the
\* readiness conditions and the annotations of the job are.
C35_AtMostOneJobDelete == hist.jobDeletes <= 1

\* the calls that delete a job that is running too early and is of the
\* current repository and configuration issue one delete
C35_OneDeleteOfCurrentJob ==
    [][(/\ pc = "backup"
        /\ \A job \in ReplicaCreateBackupJobs(local.repoResources) :
             ~(/\ DeletesRunning(job, DedicatedRepoReady(status),
                                 ReplicaRepoReady(status))
               /\ DeletesStale(job, local.replicaCreateRepo,
                               ConfigName(spec, env.primary), ConfigHash(spec)))) =>
            hist'.jobDeletes <= 1]_vars

\* the status the cycle started from is converged: every repository of the
\* spec has stanzaCreated=true, the replica-create repository has
\* replicaCreateBackupComplete=true and the ReplicaCreate condition is True
ConvergedAtStart ==
    /\ \A i \in 1..Len(spec.Repos) :
         /\ StatusOf(persisted.Repos, spec.Repos[i].Name) # {}
         /\ \A rs \in StatusOf(persisted.Repos, spec.Repos[i].Name) : rs.StanzaCreated
    /\ \A rs \in StatusOf(persisted.Repos, ReplicaCreateRepoName(spec)) :
         rs.ReplicaCreateBackupComplete
    /\ persisted.Conditions[ConditionReplicaCreate] = "True"

\* the store is as the status the cycle started from has observed it: the
\* host is as ready and each volume as bound as recorded
ExternalStateUnchanged ==
    /\ \A h \in Hosts(store) : getRepoHostStatus(h) = persisted.RepoHost
    /\ \A v \in store :
         v.kind = "PersistentVolumeClaim" =>
            \A rs \in StatusOf(persisted.Repos, GetLabel(v, LabelPGBackRestRepo)) :
                rs.Bound = (v.st = "Bound")

\* a cycle that started from a converged state with the spec and the
\* external state unchanged, found every resource it applies in the store,
\* and has run to its end with no call failing
QuietCycle ==
    /\ pc = "return"
    /\ ConvergedAtStart
    /\ budget.specChanges = 0
    /\ ExternalStateUnchanged
    /\ hist.failed = {}
    /\ \A m \in hist.muts : m.op[2] # "create"

\* C36: a cycle from a converged state, with no change of the spec or of
\* the external state, issues no delete, changes no status flag and no
\* condition, and returns a result that asks for no requeue.
C36_Quiescence ==
    QuietCycle =>
        /\ \A m \in hist.muts : m.op[2] # "delete"
        /\ hist.jobDeletes = 0
        /\ status = persisted
        /\ local.result = NoResult
        /\ ~local.err

\* C36 (case): a cycle from a converged state of a cluster with a dedicated
\* host has run to its end and has applied its resources again.
C36_QuietCycleRan ==
    /\ QuietCycle
    /\ DedicatedRepoHostEnabled(spec)
    /\ StepSet \subseteq hist.ran
    /\ \E m \in hist.muts : m.op = <<"host", "patch">>

\* C37: with a spec that is not edited, the cleanup of a cycle retains every
\* resource the cycles before have created or applied (host, volumes,
\* replica-create job, scheduled backups, configuration): it deletes
\* nothing, so no later step of the cycle creates again what the cleanup
\* has deleted.
C37_NoFlapping ==
    [][pc = "resources" =>
        /\ Removed = {}
        /\ hist'.muts = {}
        /\ pc' = "host" => OwnedBackupResources \subseteq store'
        /\ pc' = "host" =>
             \A r \in OwnedBackupResources :
                InRepoResources(r) => r \in local'.repoResources]_vars

\* C37 (case): the cleanup of a cycle has run over a store with a volume, a
\* scheduled backup and a replica-create job, and they are still there.
C37_ResourcesRetained ==
    /\ pc = "host"
    /\ "resources" \in hist.ran
    /\ \E r \in store : r.kind = "PersistentVolumeClaim"
    /\ \E r \in store : r.kind = "CronJob"
    /\ \E r \in store : r.kind = "Job"

=============================================================================
